---- MODULE Spec2Model ----
(***************************************************************************)
(* Lazy tree data controller of RichTreeViewPlus: the useLazyLoading hook, *)
(* the DefaultDataSourceCache it reads and writes, and the tree utilities  *)
(* that splice fetched children into the items snapshot.                   *)
(*                                                                         *)
(* One action is one synchronous block of the hook: a public operation up  *)
(* to its awaited getTreeItems call, or the continuation of loadItems      *)
(* after that call resolved or rejected.                                   *)
(***************************************************************************)
EXTENDS Integers, Sequences, FiniteSets, TLC

\* ------------------------------------------------------------------ bounds
\* Date.now() runs from 1 to MaxTime.
MaxTime == 3
\* getTreeItems is called at most MaxCalls times in one behaviour.
MaxCalls == 2
\* A mounted component's getTreeItems calls: its initial root load and
\* those its handlers make.
MaxViewCalls == 3
\* staleTime prop and the cache's defaultTtl, in ticks of the model clock.
StaleTime == 0
DefaultTtl == 1

\* ------------------------------------------------------------ option values
\* An optional value (undefined / null in the source) is the empty sequence,
\* a present value v is <<v>>.
None == <<>>
Some(v) == <<v>>

\* parentId?: string  --  the absent parentId of a root load.
Undefined == "undefined"
\* Mutant: the absent parentId is taken for a node id.
Truthy_Defined(s) == s # ""

\* JavaScript truthiness of an optional string: undefined and '' are falsy.
Truthy(s) == s # Undefined /\ s # ""

\* ------------------------------------------------------------- tree items
\* TreeViewItem: children is optional (None: not loaded yet).
Item(id, label, cc) ==
  [id |-> id, label |-> label, childrenCount |-> cc, children |-> None]

\* The nodes the data sources deliver.  ItemA is the expandable root node of
\* the mock data source; ItemB, ItemC and ItemD are nodes of an application
\* data source: a leaf of the root list, a folder inside a folder, and a
\* leaf below that.
ItemA == Item("a", "A", 1)
ItemB == Item("b", "B", 0)
ItemC == Item("c", "C", 1)
ItemD == Item("d", "D", 0)
\* The leaf the mock data source keeps below its one expandable node.
Child1 == Item("c", "C", 0)

\* The dataSource prop: the data source of createMockDataSource(), or a data
\* source of the application (the prop left out is Undefined).
MockDataSource == "createMockDataSource"
AppDataSource == "dataSource"
DataSources == {MockDataSource, AppDataSource}

\* createMockDataSource: its data record, with the ids parent and child-1
\* written a and c.
data == [root |-> <<ItemA>>, a |-> <<Child1>>]

\* createMockDataSource: getTreeItems({ parentId }) resolves with
\* data[parentId ?? 'root'] ?? [].
getTreeItems(parentId) ==
  LET key == IF parentId = Undefined THEN "root" ELSE parentId
  IN IF key \in DOMAIN data THEN data[key] ELSE <<>>

\* createMockDataSource: getChildrenCount(item) is
\* item.childrenCount ?? (data[item.id]?.length ?? 0).
getChildrenCount(item) ==
  IF "childrenCount" \in DOMAIN item THEN item.childrenCount
  ELSE IF item.id \in DOMAIN data THEN Len(data[item.id])
  ELSE 0

\* A data source of the application: the lists its getTreeItems can resolve
\* with.  Without a parentId (if (!parentId)) it is the root list; with one
\* it is the list kept for that node id, the empty list for an id it keeps
\* none for (fileStructure[parentId] || []), the id "root" included.  The
\* tree has three levels and a leaf in the root list, and a node's list can
\* differ from call to call.
ProviderData(parentId) ==
  CASE ~Truthy(parentId) -> {<<ItemA, ItemB>>}
    [] parentId = "a"    -> {<<ItemC>>, <<>>}
    [] parentId = "c"    -> {<<ItemD>>}
    [] OTHER             -> {<<>>}

\* The application's getChildrenCount: (item) => item.childrenCount || 0.
ChildrenCountOrZero(item) ==
  IF "childrenCount" \in DOMAIN item THEN item.childrenCount ELSE 0

\* currentDataSource.getTreeItems({ parentId }): the lists the promise of
\* data source ds can resolve with.
Resolutions(ds, parentId) ==
  IF ds = MockDataSource
    THEN {getTreeItems(parentId)}
    ELSE ProviderData(parentId)

\* dataSource.getChildrenCount(item), for the data source ds.
ChildrenCount(ds, item) ==
  IF ds = MockDataSource THEN getChildrenCount(item) ELSE ChildrenCountOrZero(item)

\* Node ids the operations are called with ("zz" is in no tree).
NodeIds == {"a", "b", "c"}
\* The node ids loadItems and retryLoadItems are called with directly.
LoadIds == {"a", "c"}
ExpandIds == NodeIds \cup {"zz"}

\* The rejection values of getTreeItems: Error objects with a message, and
\* a value that is no Error.
Errors == {[isError |-> TRUE, message |-> "boom"],
           [isError |-> FALSE, message |-> "oops"]}

\* The values the promise of data source ds can reject with: the mock data
\* source never rejects.
Rejections(ds) == IF ds = MockDataSource THEN {} ELSE Errors

\* Mutant: the fallback text is stored for every rejection.
errorMessage_Fallback(error) == "Failed to load items"

\* loadItems catch block: the message stored for a rejection.
errorMessage(error) ==
  IF error.isError THEN error.message ELSE "Failed to load items"

\* ------------------------------------------------------------- treeUtils
\* Mutant: only the top level is searched for parentId.
updateItemsRecursively_TopOnly(its, parentId, children) ==
  [i \in 1..Len(its) |->
     IF its[i].id = parentId
       THEN [its[i] EXCEPT !.children = Some(children)]
       ELSE its[i]]

\* Mutant: a new child takes over the children array the old child of the
\* same id had.
RECURSIVE updateItemsRecursively_CarriesOver(_, _, _)
updateItemsRecursively_CarriesOver(its, parentId, children) ==
  [i \in 1..Len(its) |->
     LET item == its[i]
         old == IF item.children = None THEN <<>> ELSE item.children[1]
         carried(c) ==
           IF \E j \in 1..Len(old) : old[j].id = c.id
             THEN [c EXCEPT !.children =
                     old[CHOOSE j \in 1..Len(old) : old[j].id = c.id].children]
             ELSE c
     IN IF item.id = parentId
          THEN [item EXCEPT !.children =
                  Some([j \in 1..Len(children) |-> carried(children[j])])]
        ELSE IF item.children # None /\ Len(item.children[1]) > 0
          THEN [item EXCEPT !.children =
                  Some(updateItemsRecursively_CarriesOver(item.children[1], parentId, children))]
        ELSE item]

\* Mutant: children a node already has are kept (the first write wins).
RECURSIVE updateItemsRecursively_KeepsLoaded(_, _, _)
updateItemsRecursively_KeepsLoaded(its, parentId, children) ==
  [i \in 1..Len(its) |->
     LET item == its[i] IN
       IF item.id = parentId
         THEN IF item.children = None
                THEN [item EXCEPT !.children = Some(children)]
                ELSE item
       ELSE IF item.children # None /\ Len(item.children[1]) > 0
         THEN [item EXCEPT !.children =
                 Some(updateItemsRecursively_KeepsLoaded(item.children[1], parentId, children))]
       ELSE item]

\* Mutant: every node passed on the way gets a children array.
RECURSIVE updateItemsRecursively_FillsChildren(_, _, _)
updateItemsRecursively_FillsChildren(its, parentId, children) ==
  [i \in 1..Len(its) |->
     LET item == its[i] IN
       IF item.id = parentId
         THEN [item EXCEPT !.children = Some(children)]
       ELSE IF item.children # None
         THEN [item EXCEPT !.children =
                 Some(updateItemsRecursively_FillsChildren(item.children[1], parentId, children))]
       ELSE [item EXCEPT !.children = Some(<<>>)]]

RECURSIVE updateItemsRecursively(_, _, _)
updateItemsRecursively(its, parentId, children) ==
  [i \in 1..Len(its) |->
     LET item == its[i] IN
       IF item.id = parentId
         THEN [item EXCEPT !.children = Some(children)]
       ELSE IF item.children # None /\ Len(item.children[1]) > 0
         THEN [item EXCEPT !.children =
                 Some(updateItemsRecursively(item.children[1], parentId, children))]
       ELSE item]

RECURSIVE findItemById(_, _)
findItemById(its, id) ==
  IF its = <<>> THEN None
  ELSE LET item == Head(its) IN
    IF item.id = id THEN Some(item)
    ELSE LET found == IF item.children # None
                        THEN findItemById(item.children[1], id)
                        ELSE None
         IN IF found # None THEN found ELSE findItemById(Tail(its), id)

\* The node id of its has a non-empty children array (its children are shown).
HasChildrenLoaded(its, id) ==
  /\ findItemById(its, id) # None
  /\ findItemById(its, id)[1].children # None
  /\ Len(findItemById(its, id)[1].children[1]) > 0

\* flattenTree: depth first, a parent before its children.
RECURSIVE flattenTree(_)
flattenTree(its) ==
  IF its = <<>> THEN <<>>
  ELSE LET item == Head(its) IN
    <<item>>
      \o (IF item.children # None /\ Len(item.children[1]) > 0
            THEN flattenTree(item.children[1])
            ELSE <<>>)
      \o flattenTree(Tail(its))

\* --------------------------------------------------- DefaultDataSourceCache
\* The cache is a map from key to [value, timestamp, ttl].
MapSet(m, k, v) == [x \in DOMAIN m \cup {k} |-> IF x = k THEN v ELSE m[x]]
MapDelete(m, k) == [x \in DOMAIN m \ {k} |-> m[x]]
MapGet(m, k) == IF k \in DOMAIN m THEN Some(m[k]) ELSE None
EmptyMap == [x \in {} |-> None]

\* Mutant: an entry whose age equals its ttl already counts as expired.
Expired_AtTtl(entry, t) == t - entry.timestamp >= entry.ttl

Expired(entry, t) == t - entry.timestamp > entry.ttl

\* Mutant: get never finds a value.
CacheGet_Miss(c, key, t) == None

\* get(key): the value returned ...
CacheGet(c, key, t) ==
  IF key \notin DOMAIN c THEN None
  ELSE IF Expired(c[key], t) THEN None
  ELSE Some(c[key].value)

\* Mutant: a read evicts the entry it returns.
CacheAfterGet_Evicts(c, key, t) == MapDelete(c, key)

\* ... and the cache it leaves (an expired entry is deleted).
CacheAfterGet(c, key, t) ==
  IF key \in DOMAIN c /\ Expired(c[key], t) THEN MapDelete(c, key) ELSE c

\* Mutant: set does not overwrite an entry the key already has.
CacheSet_KeepsOld(c, key, value, t) ==
  IF key \in DOMAIN c
    THEN c
    ELSE MapSet(c, key, [value |-> value, timestamp |-> t, ttl |-> DefaultTtl])

CacheSet(c, key, value, t) ==
  MapSet(c, key, [value |-> value, timestamp |-> t, ttl |-> DefaultTtl])

\* Mutant: the ttl argument is ignored, the default is always used.
CacheSetTtl_IgnoresTtl(c, key, value, ttl, t) ==
  MapSet(c, key, [value |-> value, timestamp |-> t, ttl |-> DefaultTtl])

\* set(key, value, ttl?) with the optional ttl: ttl ?? this.defaultTtl.
CacheSetTtl(c, key, value, ttl, t) ==
  MapSet(c, key, [value |-> value, timestamp |-> t,
                  ttl |-> IF ttl = None THEN DefaultTtl ELSE ttl[1]])

\* has(key): the answer ...
CacheHas(c, key, t) == key \in DOMAIN c /\ ~Expired(c[key], t)

\* Mutant: has leaves an expired entry in place.
CacheAfterHas_Keeps(c, key, t) == c

\* ... and the cache it leaves (an expired entry is deleted).
CacheAfterHas(c, key, t) ==
  IF key \in DOMAIN c /\ Expired(c[key], t) THEN MapDelete(c, key) ELSE c

\* Mutant: cleanup also removes the entries whose age equals their ttl.
CacheCleanup_AtTtl(c, t) ==
  [k \in {x \in DOMAIN c : t - c[x].timestamp < c[x].ttl} |-> c[k]]

\* cleanup(): every entry with now - timestamp > ttl is deleted.
CacheCleanup(c, t) ==
  [k \in {x \in DOMAIN c : ~(t - c[x].timestamp > c[x].ttl)} |-> c[k]]

\* Mutant: delete leaves the entry in place.
CacheDelete_Keeps(c, key) == c

CacheDelete(c, key) == MapDelete(c, key)

\* Mutant: clear leaves the entries in place.
CacheClear_Keeps(c) == c

CacheClear(c) == EmptyMap

\* ---------------------------------------------------------- useLazyLoading
VARIABLES
  items,          \* useState items: the tree snapshot
  loadingItems,   \* useState loadingItems: Set<string>
  errorItems,     \* useState errorItems: Map<string, string>
  cache,          \* cacheRef.current: the DefaultDataSourceCache's map
  fetchedTimes,   \* fetchedTimesRef.current: Map<string, number>
  now,            \* Date.now()
  dataSource,     \* dataSourceRef.current: the dataSource prop (Undefined: not given)
  inflight,       \* getTreeItems promises not yet settled
  calls,          \* the provider's log of getTreeItems calls, in order
  lastOp,         \* the operation that ran last, and what it did
  script,         \* the place a scripted user session has come to
  view            \* RichTreeViewPlus: its props, refs and expansion state

vars == <<items, loadingItems, errorItems, cache, fetchedTimes, now,
          dataSource, inflight, calls, lastOp, script, view>>

\* A scripted session before its first event: the number of user events
\* made, and the time the first fetch resolved (0: not yet).
ScriptStart == [pos |-> 0, resolvedAt |-> 0]

\* RichTreeViewPlus before it is mounted: the expandedItems prop is given
\* (controlled) or not, expanded is the list of expanded item ids (the
\* prop, or the tree view's own state), prevControlledExpanded is
\* prevControlledExpandedRef.current, source names the object passed as
\* dataSource, didInitialLoad is didInitialLoadRef.current.
ViewStart ==
  [mounted |-> FALSE, controlled |-> FALSE, expanded |-> <<>>,
   prevControlledExpanded |-> <<>>, source |-> 1, didInitialLoad |-> FALSE]

\* The provider calls one behaviour may make: a mounted component has made
\* its initial root load besides the calls of its handlers.
CallLimit == IF view.mounted THEN MaxViewCalls ELSE MaxCalls

\* `items-${parentId || 'root'}`
CacheKey(parentId) ==
  "items-" \o (IF Truthy(parentId) THEN parentId ELSE "root")

\* Mutant: the fetch time of a root load is recorded under no key of its own.
TimeKey_NoRoot(parentId) == parentId

\* parentId || 'root'
TimeKey(parentId) == IF Truthy(parentId) THEN parentId ELSE "root"

\* Mutant: the loading flag is not set when the attempt starts.
LoadingAdd_Skips(prev, parentId) == prev

\* setLoadingItems(prev => new Set(prev).add(parentId))
LoadingAdd(prev, parentId) == prev \cup {parentId}

\* Mutant: the updater leaves the loading id in the set.
LoadingDelete_Keeps(prev, parentId) == prev

\* Mutant: the updater drops every loading id, not just parentId.
LoadingDelete_All(prev, parentId) == {}

\* setLoadingItems(prev => { newSet.delete(parentId) })
LoadingDelete(prev, parentId) == prev \ {parentId}

\* Mutant: a new attempt leaves the previous error in place.
ErrorDelete_Keeps(prev, parentId) == prev

\* setErrorItems(prev => { newMap.delete(parentId) })
ErrorDelete(prev, parentId) == MapDelete(prev, parentId)

\* setErrorItems(prev => new Map(prev).set(parentId, errorMessage))
ErrorSet(prev, parentId, message) == MapSet(prev, parentId, message)

\* What the operation that ran last did: its name and argument, whether it
\* called getTreeItems, the error its loadItems promise rejected with, and
\* whether it called getChildrenCount (only handleItemExpansion does).
Op(op, id, called, raised) ==
  [op |-> op, id |-> id, called |-> called, raised |-> raised, counted |-> FALSE,
   returned |-> None, found |-> EmptyMap]

\* What a method of the cache did: the key it was called with, the entries
\* of the map it read or replaced, and the value it returned (None: void).
CacheOp(op, key, found, returned) ==
  [Op(op, key, FALSE, None) EXCEPT !.found = found, !.returned = returned]

\* The same for an operation that asked the provider for a children count.
Counted(o) == [o EXCEPT !.counted = TRUE]

\* What a loadItems call reports: handleItemExpansion reaches loadItems only
\* after it asked for the item's children count.
Done(op, id, called) ==
  IF op = "handleItemExpansion"
    THEN Counted(Op(op, id, called, None))
    ELSE Op(op, id, called, None)

\* Mutant: the missing data source goes unnoticed.
NoDataSource_Unchecked(ds) == FALSE

\* if (!currentDataSource)
NoDataSource(ds) == ds = Undefined

\* initialItems prop: empty (the default) or an eagerly supplied root list.
InitialItems == {<<>>, <<ItemA, ItemB>>}

Init ==
  /\ items \in InitialItems
  /\ loadingItems = {}
  /\ errorItems = EmptyMap
  /\ cache = EmptyMap
  /\ fetchedTimes = EmptyMap
  /\ now = 1
  /\ dataSource \in {Undefined} \cup DataSources
  /\ inflight = {}
  /\ calls = <<>>
  /\ lastOp = Op("init", Undefined, FALSE, None)
  /\ script = ScriptStart
  /\ view = ViewStart

\* loadItems(parentId) up to the await, run against cache c0 (the cache as
\* the caller left it); op names the public operation that made the call,
\* t is the value of Date.now() that cache.get reads, and ds is
\* dataSourceRef.current, the dataSource prop of the render before the call.
LoadItemsWith(op, parentId, c0, t, ds) ==
  LET cacheKey == CacheKey(parentId)
      cachedItems == CacheGet(c0, cacheKey, t)
      c1 == CacheAfterGet(c0, cacheKey, t)
  IN IF NoDataSource(ds)
       THEN /\ cache' = c0
            /\ lastOp' = Done(op, parentId, FALSE)
            /\ dataSource' = ds
            /\ UNCHANGED <<items, loadingItems, errorItems, fetchedTimes, now,
                           inflight, calls>>
     ELSE IF cachedItems # None
       THEN /\ items' = IF Truthy(parentId)
                          THEN updateItemsRecursively(items, parentId, cachedItems[1])
                          ELSE cachedItems[1]
            /\ cache' = c1
            /\ now' = t
            /\ lastOp' = Done(op, parentId, FALSE)
            /\ dataSource' = ds
            /\ UNCHANGED <<loadingItems, errorItems, fetchedTimes, inflight, calls>>
       ELSE /\ Len(calls) < CallLimit
            /\ loadingItems' = IF Truthy(parentId)
                                 THEN LoadingAdd(loadingItems, parentId)
                                 ELSE loadingItems
            /\ errorItems' = IF Truthy(parentId)
                               THEN ErrorDelete(errorItems, parentId)
                               ELSE errorItems
            /\ cache' = c1
            /\ now' = t
            /\ calls' = Append(calls, parentId)
            /\ inflight' = inflight \cup
                 {[fid |-> Len(calls) + 1, parentId |-> parentId, caller |-> op]}
            /\ lastOp' = Done(op, parentId, TRUE)
            /\ dataSource' = ds
            /\ UNCHANGED <<items, fetchedTimes>>

\* loadItems as the hook's operations call it: dataSourceRef.current is the
\* dataSource prop of the last render.
LoadItemsSync(op, parentId, c0, t) == LoadItemsWith(op, parentId, c0, t, dataSource)

LoadItems(parentId) == LoadItemsSync("loadItems", parentId, cache, now)

RetryLoadItems(parentId) ==
  LoadItemsSync("retryLoadItems", parentId, CacheDelete(cache, CacheKey(parentId)), now)

\* Mutant: every node counts as stale.
IsStale_Always(lastFetched, t) == TRUE

\* Mutant: data whose age equals staleTime already counts as stale.
IsStale_AtWindow(lastFetched, t) ==
  lastFetched = None \/ lastFetched[1] = 0 \/ t - lastFetched[1] >= StaleTime

\* Mutant: only a missing timestamp makes a node stale, its age is ignored.
IsStale_IgnoresAge(lastFetched, t) == lastFetched = None \/ lastFetched[1] = 0

\* !lastFetched || Date.now() - lastFetched > staleTime
IsStale(lastFetched, t) ==
  lastFetched = None \/ lastFetched[1] = 0 \/ t - lastFetched[1] > StaleTime

\* Mutant: the children count is not consulted.
NeedsLoad_AnyCount(item, isStale) ==
  isStale \/ item.children = None \/ Len(item.children[1]) = 0

\* Mutant: an empty children array counts as loaded.
NeedsLoad_IgnoresEmpty(item, isStale) ==
  /\ ChildrenCount(dataSource, item) # 0
  /\ (isStale \/ item.children = None)

\* childrenCount !== 0 && (isStale || !item.children || item.children.length === 0)
NeedsLoad(item, isStale) ==
  /\ ChildrenCount(dataSource, item) # 0
  /\ (isStale \/ item.children = None \/ Len(item.children[1]) = 0)

\* Two reads of Date.now() that follow each other in one synchronous block:
\* the values the second read can give when the first gave t.
NextRead(t) == {t, t + 1} \cap (1..MaxTime)

\* handleItemExpansion, once the data source and the item were found; its
\* loadItems call reports through lastOp like any other, with the
\* getChildrenCount call noted.  Date.now() is read for the staleness test
\* (when a fetch time is recorded) and again by cache.get inside loadItems
\* (when the key has an entry).
ExpandFound(itemId, item) ==
  LET isStale == IsStale(MapGet(fetchedTimes, itemId), now)
      c0 == IF isStale THEN CacheDelete(cache, "items-" \o itemId) ELSE cache
      readsTwice == ~isStale /\ ("items-" \o itemId) \in DOMAIN c0
  IN
    IF NeedsLoad(item, isStale)
      THEN \E t \in (IF readsTwice THEN NextRead(now) ELSE {now}) :
             LoadItemsSync("handleItemExpansion", itemId, c0, t)
      ELSE /\ lastOp' = Counted(Op("handleItemExpansion", itemId, FALSE, None))
           /\ UNCHANGED <<items, loadingItems, errorItems, cache,
                          fetchedTimes, now, dataSource, inflight, calls>>

\* Mutant: the item is not looked up, its children are loaded regardless.
HandleItemExpansion_NoLookup(itemId, currentItems) ==
  LoadItemsSync("handleItemExpansion", itemId, cache, now)

HandleItemExpansion(itemId, currentItems) ==
  LET found == findItemById(currentItems, itemId) IN
    IF NoDataSource(dataSource) \/ found = None
      THEN /\ lastOp' = Op("handleItemExpansion", itemId, FALSE, None)
           /\ UNCHANGED <<items, loadingItems, errorItems, cache, fetchedTimes,
                          now, dataSource, inflight, calls>>
      ELSE ExpandFound(itemId, found[1])

ClearCache ==
  /\ cache' = CacheClear(cache)
  /\ loadingItems' = {}
  /\ errorItems' = EmptyMap
  /\ lastOp' = Op("clearCache", Undefined, FALSE, None)
  /\ UNCHANGED <<items, fetchedTimes, now, dataSource, inflight, calls>>

\* loadItems after the await resolved with fetchedItems.  cache.set stamps
\* the entry with Date.now(), and the fetch time is a second Date.now().
ResolveFetch(f, fetchedItems) ==
  /\ f \in inflight
  /\ inflight' = inflight \ {f}
  /\ cache' = CacheSet(cache, CacheKey(f.parentId), fetchedItems, now)
  /\ \E t \in NextRead(now) :
       /\ fetchedTimes' = MapSet(fetchedTimes, TimeKey(f.parentId), t)
       /\ now' = t
  /\ items' = IF Truthy(f.parentId)
                THEN updateItemsRecursively(items, f.parentId, fetchedItems)
                ELSE fetchedItems
  /\ loadingItems' = IF Truthy(f.parentId)
                       THEN LoadingDelete(loadingItems, f.parentId)
                       ELSE loadingItems
  /\ lastOp' = Op("resolve", f.parentId, FALSE, None)
  /\ UNCHANGED <<errorItems, dataSource, calls>>

\* loadItems after the await rejected with error: the catch block.
RejectFetch(f, error) ==
  /\ f \in inflight
  /\ inflight' = inflight \ {f}
  /\ loadingItems' = IF Truthy(f.parentId)
                       THEN LoadingDelete(loadingItems, f.parentId)
                       ELSE loadingItems
  /\ errorItems' = IF Truthy(f.parentId)
                     THEN ErrorSet(errorItems, f.parentId, errorMessage(error))
                     ELSE errorItems
  /\ lastOp' = Op("reject", f.parentId, FALSE, Some(error))
  /\ UNCHANGED <<items, cache, fetchedTimes, now, dataSource, calls>>

Tick ==
  /\ now < MaxTime
  /\ now' = now + 1
  /\ lastOp' = Op("tick", Undefined, FALSE, None)
  /\ UNCHANGED <<items, loadingItems, errorItems, cache, fetchedTimes,
                 dataSource, inflight, calls>>

Next ==
  \/ \E p \in LoadIds \cup {Undefined} : LoadItems(p) /\ UNCHANGED <<script, view>>
  \/ \E p \in LoadIds : RetryLoadItems(p) /\ UNCHANGED <<script, view>>
  \/ \E i \in ExpandIds : HandleItemExpansion(i, items) /\ UNCHANGED <<script, view>>
  \/ ClearCache /\ UNCHANGED <<script, view>>
  \/ \E f \in inflight : \E r \in Resolutions(dataSource, f.parentId) : ResolveFetch(f, r) /\ UNCHANGED <<script, view>>
  \/ \E f \in inflight : \E e \in Rejections(dataSource) : RejectFetch(f, e) /\ UNCHANGED <<script, view>>
  \/ Tick /\ UNCHANGED <<script, view>>

Spec == Init /\ [][Next]_vars

\* ------------------------------------------------- the tree utilities alone
\* updateItemChildren(parentId, children): the hook's only use of
\* updateItemsRecursively, applied to whatever snapshot is current.
updateItemChildren(parentId, children) ==
  /\ items' = updateItemsRecursively(items, parentId, children)
  /\ lastOp' = Op("updateItemChildren", parentId, FALSE, None)
  /\ UNCHANGED <<loadingItems, errorItems, cache, fetchedTimes, now,
                 dataSource, inflight, calls>>

\* The ids and children lists updateItemChildren is applied with.
TreeIds == {"a", "b", "c", "d", "zz"}
ChildLists == {<<>>, <<ItemC>>, <<ItemD>>, <<ItemC, ItemD>>, <<ItemB>>}

NextTree == \E id \in TreeIds : \E children \in ChildLists :
              updateItemChildren(id, children) /\ UNCHANGED <<script, view>>

\* Trees grown from the initial items by updateItemChildren alone.
SpecTree == Init /\ [][NextTree]_vars

\* ------------------------------------------- the hook inside RichTreeViewPlus
\* items prop: empty (the default) or a tree supplied with children loaded.
PreloadedItems == <<[ItemA EXCEPT !.children = Some(<<ItemC>>)], ItemB>>
ComponentItems == {<<>>, PreloadedItems}

InitComponent ==
  /\ items \in ComponentItems
  /\ loadingItems = {}
  /\ errorItems = EmptyMap
  /\ cache = EmptyMap
  /\ fetchedTimes = EmptyMap
  /\ now = 1
  /\ dataSource \in {Undefined, AppDataSource}
  /\ inflight = {}
  /\ calls = <<>>
  /\ lastOp = Op("init", Undefined, FALSE, None)
  /\ script = ScriptStart
  /\ view = ViewStart

\* The component is mounted: the initial-load effect runs before any
\* handler can.  Without a data source it returns at once
\* (if (!currentDataSource) return) and leaves didInitialLoadRef as it is;
\* with one it sets the flag and calls loadItems() (the flag is false).
InitialLoad ==
  /\ ~view.mounted
  /\ IF dataSource = Undefined
       THEN /\ lastOp' = Op("initialLoadEffect", Undefined, FALSE, None)
            /\ view' = [view EXCEPT !.mounted = TRUE]
            /\ UNCHANGED <<items, loadingItems, errorItems, cache, fetchedTimes,
                           now, dataSource, inflight, calls>>
       ELSE /\ LoadItems(Undefined)
            /\ view' = [view EXCEPT !.mounted = TRUE, !.didInitialLoad = TRUE]

\* Once mounted, the component calls
\* handleItemExpansion(itemId, internalItems) for the items newly expanded.
NextComponent ==
  \/ InitialLoad /\ UNCHANGED script
  \/ \E i \in ExpandIds :
       view.mounted /\ HandleItemExpansion(i, items) /\ UNCHANGED <<script, view>>
  \/ \E f \in inflight : \E r \in Resolutions(dataSource, f.parentId) :
       ResolveFetch(f, r) /\ UNCHANGED <<script, view>>
  \/ \E f \in inflight : \E e \in Rejections(dataSource) :
       RejectFetch(f, e) /\ UNCHANGED <<script, view>>
  \/ view.mounted /\ Tick /\ UNCHANGED <<script, view>>

SpecComponent == InitComponent /\ [][NextComponent]_vars

\* ------------------------------------------ the fresh-versus-stale session
\* The session of the test 'uses cache + staleTime logic (fresh vs stale)',
\* run against the mock data source: the component is rendered without an
\* items prop, the initial load brings the root list, and the user clicks
\* the one expandable root node, by turns expanding and collapsing it.
InitScenario ==
  /\ items = <<>>
  /\ loadingItems = {}
  /\ errorItems = EmptyMap
  /\ cache = EmptyMap
  /\ fetchedTimes = EmptyMap
  /\ now = 1
  /\ dataSource = MockDataSource
  /\ inflight = {}
  /\ calls = <<>>
  /\ lastOp = Op("init", Undefined, FALSE, None)
  /\ script = ScriptStart
  /\ view = ViewStart

\* A click that expands the node: handleExpandedItemsChange(event, ['a'])
\* calls handleItemExpansion('a', internalItems).  The node is clicked once
\* it is shown; the second expansion is made within the stale window of the
\* first fetch's resolution.
ScriptExpand ==
  /\ view.mounted
  /\ script.pos \in {0, 2, 4}
  /\ findItemById(items, "a") # None
  /\ script.pos = 2 => now <= script.resolvedAt + StaleTime
  /\ HandleItemExpansion("a", items)
  /\ script' = [script EXCEPT !.pos = @ + 1]
  /\ UNCHANGED view

\* A click that collapses the node: handleExpandedItemsChange(event, [])
\* finds no newly expanded item and calls nothing.  The first collapse waits
\* for the child to be shown, the second for the stale window to have passed.
ScriptCollapse ==
  /\ script.pos \in {1, 3}
  /\ script.pos = 1 => HasChildrenLoaded(items, "a")
  /\ script.pos = 3 => now > script.resolvedAt + StaleTime
  /\ lastOp' = Op("collapse", "a", FALSE, None)
  /\ script' = [script EXCEPT !.pos = @ + 1]
  /\ UNCHANGED <<items, loadingItems, errorItems, cache, fetchedTimes, now,
                 dataSource, inflight, calls, view>>

\* The provider resolves a fetch; the session notes the fetch time recorded
\* when the first fetch for the node did.
ScriptResolve(f, r) ==
  /\ ResolveFetch(f, r)
  /\ script' = IF f.parentId = "a" /\ script.resolvedAt = 0
                 THEN [script EXCEPT !.resolvedAt = now']
                 ELSE script
  /\ UNCHANGED view

NextScenario ==
  \/ InitialLoad /\ UNCHANGED script
  \/ ScriptExpand
  \/ ScriptCollapse
  \/ \E f \in inflight : \E r \in Resolutions(dataSource, f.parentId) : ScriptResolve(f, r)
  \/ view.mounted /\ Tick /\ UNCHANGED <<script, view>>

SpecScenario == InitScenario /\ [][NextScenario]_vars

\* -------------------------------------------------- dataSourceCache = null
\* dataSourceCache || new DefaultDataSourceCache(): the map of the cache
\* instance the hook uses, for the prop value given (None: null or omitted).
CacheInstance(dataSourceCache) ==
  IF dataSourceCache = None THEN EmptyMap ELSE dataSourceCache[1]

\* The hook constructed with a data source and dataSourceCache = null.
InitNullCache == Init /\ dataSource # Undefined /\ cache = CacheInstance(None)

SpecNullCache == InitNullCache /\ [][Next]_vars

\* --------------------------------------------------- the decorated snapshot
\* The synthetic children enhanceItemsWithStates injects; an optional field
\* of slotProps.item that is not set is FALSE (a flag) or None (the error).
LoadingChild(id) ==
  [id |-> id \o "-loading", label |-> "Loading...",
   slotProps |-> [item |-> [isLoading |-> TRUE, error |-> None,
                            isPlaceholder |-> FALSE]]]

ErrorChild(id, error) ==
  [id |-> id \o "-error", label |-> "Error loading children",
   slotProps |-> [item |-> [isLoading |-> FALSE, error |-> error,
                            isPlaceholder |-> FALSE]]]

PlaceholderChild(id) ==
  [id |-> id \o "-placeholder", label |-> " ",
   slotProps |-> [item |-> [isLoading |-> FALSE, error |-> None,
                            isPlaceholder |-> TRUE]]]

\* if (error), error being errorItems.get(item.id): string | undefined.
TruthyError(error) == error # None /\ error[1] # ""

\* enhanceItemsWithStates(items, { loadingItems, errorItems }, dataSource);
\* ds tells whether a data source was passed.
RECURSIVE enhanceItemsWithStates(_, _, _, _)
enhanceItemsWithStates(its, loading, errors, ds) ==
  [i \in 1..Len(its) |->
     LET item == its[i]
         nonEmpty == item.children # None /\ Len(item.children[1]) > 0
         childrenEnhanced ==
           IF nonEmpty
             THEN Some(enhanceItemsWithStates(item.children[1], loading, errors, ds))
             ELSE item.children
         \* map() returns a new array: childrenEnhanced !== item.children
         childrenWereChanged == nonEmpty
         childrenCount == ChildrenCount(ds, item)
         isLoading == item.id \in loading
         error == MapGet(errors, item.id)
         needsPlaceholder ==
           childrenCount # 0 /\ (item.children = None \/ Len(item.children[1]) = 0)
         needsEnhancement ==
           isLoading \/ TruthyError(error) \/ needsPlaceholder \/ childrenWereChanged
     IN IF ds = Undefined
          THEN IF childrenWereChanged
                 THEN [item EXCEPT !.children = childrenEnhanced]
                 ELSE item
        ELSE IF ~needsEnhancement
          THEN item
        ELSE [id |-> item.id, label |-> item.label,
              childrenCount |-> item.childrenCount,
              children |->
                IF isLoading THEN Some(<<LoadingChild(item.id)>>)
                ELSE IF TruthyError(error) THEN Some(<<ErrorChild(item.id, error)>>)
                ELSE IF needsPlaceholder THEN Some(<<PlaceholderChild(item.id)>>)
                ELSE childrenEnhanced,
              slotProps |-> [item |-> [isLoading |-> isLoading, error |-> error,
                                       hasChildren |-> childrenCount # 0,
                                       childrenCount |-> childrenCount]]]]

\* RichTreeViewPlus' enhancedItems memo: the decorated snapshot computed
\* from the hook's state; the hook's state is not written.
EnhancedItems ==
  /\ lastOp' = [Op("enhancedItems", Undefined, FALSE, None) EXCEPT
                  !.returned = Some(enhanceItemsWithStates(
                                      items, loadingItems, errorItems, dataSource))]
  /\ UNCHANGED <<items, loadingItems, errorItems, cache, fetchedTimes, now,
                 dataSource, inflight, calls>>

\* A rejection with an Error that has no message: new Error().
EmptyMessageError == [isError |-> TRUE, message |-> ""]

\* The Errors without a message data source ds can reject with: the mock
\* data source never rejects.
EmptyRejections(ds) == IF ds = MockDataSource THEN {} ELSE {EmptyMessageError}

\* The hook under a provider that may also reject with such an Error, and
\* the component rendering its state.
NextDecorate ==
  \/ Next
  \/ \E f \in inflight : \E e \in EmptyRejections(dataSource) :
       RejectFetch(f, e) /\ UNCHANGED <<script, view>>
  \/ EnhancedItems /\ UNCHANGED <<script, view>>

SpecDecorate == Init /\ [][NextDecorate]_vars

\* ------------------------------------------- the DefaultDataSourceCache alone
\* The keys, values and ttl arguments the cache's methods are called with.
CacheKeys == {"items-a", "items-root"}
CacheValues == {<<>>, <<ItemC>>}
TtlArgs == {None, Some(0), Some(DefaultTtl + 1)}

\* The entry of key in c, as a map of at most that key.
EntryOf(c, key) == [k \in {key} \cap DOMAIN c |-> c[k]]

\* What every method of the cache leaves alone.
CacheFrame ==
  UNCHANGED <<items, loadingItems, errorItems, fetchedTimes, now,
              dataSource, inflight, calls>>

CacheOpGet(key) ==
  /\ cache' = CacheAfterGet(cache, key, now)
  /\ lastOp' = CacheOp("get", key, EntryOf(cache, key),
                       Some(CacheGet(cache, key, now)))
  /\ CacheFrame

CacheOpHas(key) ==
  /\ cache' = CacheAfterHas(cache, key, now)
  /\ lastOp' = CacheOp("has", key, EntryOf(cache, key),
                       Some(CacheHas(cache, key, now)))
  /\ CacheFrame

CacheOpSet(key, value, ttl) ==
  /\ cache' = CacheSetTtl(cache, key, value, ttl, now)
  /\ lastOp' = CacheOp("set", key, EntryOf(cache, key), None)
  /\ CacheFrame

CacheOpDelete(key) ==
  /\ cache' = CacheDelete(cache, key)
  /\ lastOp' = CacheOp("delete", key, EntryOf(cache, key),
                       Some(key \in DOMAIN cache))
  /\ CacheFrame

CacheOpClear ==
  /\ cache' = CacheClear(cache)
  /\ lastOp' = CacheOp("clear", Undefined, cache, None)
  /\ CacheFrame

CacheOpCleanup ==
  /\ cache' = CacheCleanup(cache, now)
  /\ lastOp' = CacheOp("cleanup", Undefined, cache, None)
  /\ CacheFrame

\* A new DefaultDataSourceCache(DefaultTtl), used by nothing but its caller.
InitCache == Init /\ items = <<>> /\ dataSource # Undefined

NextCache ==
  \/ \E k \in CacheKeys : CacheOpGet(k) /\ UNCHANGED <<script, view>>
  \/ \E k \in CacheKeys : CacheOpHas(k) /\ UNCHANGED <<script, view>>
  \/ \E k \in CacheKeys : \E v \in CacheValues : \E ttl \in TtlArgs :
       CacheOpSet(k, v, ttl) /\ UNCHANGED <<script, view>>
  \/ \E k \in CacheKeys : CacheOpDelete(k) /\ UNCHANGED <<script, view>>
  \/ CacheOpClear /\ UNCHANGED <<script, view>>
  \/ CacheOpCleanup /\ UNCHANGED <<script, view>>
  \/ Tick /\ UNCHANGED <<script, view>>

SpecCache == InitCache /\ [][NextCache]_vars

\* ------------------------------------------------------------------ claims
\* Number of getTreeItems calls made for parentId so far.
CallsFor(parentId) == Cardinality({i \in 1..Len(calls) : calls[i] = parentId})

\* The fetches for parentId that are in flight.
InflightFor(parentId) == {f \in inflight : f.parentId = parentId}

\* The step ran operation op with argument id.
Ran(op, id) == lastOp'.op = op /\ lastOp'.id = id /\ vars' # vars

\* The step made no getTreeItems call / exactly one, for id.
NoCall == calls' = calls /\ inflight' = inflight
OneCallFor(id) == calls' = Append(calls, id)

\* The cache holds an entry for key that get would return at time t.
FreshEntry(c, key, t) == key \in DOMAIN c /\ t - c[key].timestamp <= c[key].ttl

\* id names a node of the snapshot its.
Present(its, id) == findItemById(its, id) # None
NodeOf(its, id) == findItemById(its, id)[1]
HasChildren(its, id) ==
  /\ Present(its, id)
  /\ NodeOf(its, id).children # None
  /\ Len(NodeOf(its, id).children[1]) > 0

\* C1: a second handleItemExpansion(N) made while a fetch that an earlier
\* handleItemExpansion(N) started is still outstanding starts no second
\* fetch (the provider is called once for N).
C1_AtMostOneInFlight ==
  [][\A n \in NodeIds :
       (Ran("handleItemExpansion", n)
          /\ \E f \in InflightFor(n) : f.caller = "handleItemExpansion")
       => NoCall]_vars

\* C2: loadItems(parentId) called while the cache holds a non-expired entry
\* for parentId's key calls no provider, adds nothing to loadingItems, and
\* splices the cached value into the snapshot (the whole list for a root
\* load, the node's children otherwise).
C2_CacheHitShortCircuits ==
  [][\A p \in NodeIds \cup {Undefined} :
       (Ran("loadItems", p) /\ FreshEntry(cache, CacheKey(p), now))
       => /\ NoCall
          /\ loadingItems' = loadingItems
          /\ IF p = Undefined
               THEN items' = cache[CacheKey(p)].value
               ELSE IF Present(items, p)
                 THEN NodeOf(items', p).children = Some(cache[CacheKey(p)].value)
                 ELSE items' = items]_vars

\* C2 witness: loadItems("a") was served from the cache.
C2_Witness ==
  /\ lastOp.op = "loadItems" /\ lastOp.id = "a" /\ ~lastOp.called
  /\ FreshEntry(cache, "items-a", now)
  /\ Present(items, "a")
  /\ NodeOf(items, "a").children = Some(cache["items-a"].value)

\* C3 as claimed: an expansion of N (children-count non-zero) at any time
\* t >= T + W, T the recorded time of N's last successful fetch, makes one
\* provider call for N, with no cache entry for N's key at that moment.
C3_StaleAtWindow ==
  [][\A n \in NodeIds :
       (Ran("handleItemExpansion", n)
          /\ Present(items, n) /\ ChildrenCount(dataSource, NodeOf(items, n)) # 0
          /\ n \in DOMAIN fetchedTimes
          /\ now >= fetchedTimes[n] + StaleTime)
       => OneCallFor(n) /\ CacheKey(n) \notin DOMAIN cache']_vars

\* C3 amended: the same for every time t > T + W.
C3_StaleForcesRefetch ==
  [][\A n \in NodeIds :
       (Ran("handleItemExpansion", n)
          /\ Present(items, n) /\ ChildrenCount(dataSource, NodeOf(items, n)) # 0
          /\ n \in DOMAIN fetchedTimes
          /\ now > fetchedTimes[n] + StaleTime)
       => OneCallFor(n) /\ CacheKey(n) \notin DOMAIN cache']_vars

\* C3 witness: "a", loaded and populated, was expanded after its stale
\* window and is being fetched again.
C3_Witness ==
  /\ lastOp.op = "handleItemExpansion" /\ lastOp.id = "a" /\ lastOp.called
  /\ "a" \in DOMAIN fetchedTimes /\ now > fetchedTimes["a"] + StaleTime
  /\ HasChildren(items, "a")
  /\ CallsFor("a") = 2

\* C4: handleItemExpansion(N) for a node with a non-empty children array
\* whose last successful fetch is within the stale window calls no provider
\* and changes no controller state.
C4_FreshReexpansionNoOp ==
  [][\A n \in NodeIds :
       (Ran("handleItemExpansion", n)
          /\ HasChildren(items, n)
          /\ n \in DOMAIN fetchedTimes
          /\ now - fetchedTimes[n] <= StaleTime)
       => /\ NoCall
          /\ UNCHANGED <<items, loadingItems, errorItems, cache, fetchedTimes>>]_vars

\* C4 witness: "a", populated and fresh, was expanded and nothing was called.
C4_Witness ==
  /\ lastOp.op = "handleItemExpansion" /\ lastOp.id = "a" /\ ~lastOp.called
  /\ HasChildren(items, "a")
  /\ "a" \in DOMAIN fetchedTimes /\ now - fetchedTimes["a"] <= StaleTime

\* C5: handleItemExpansion of a node whose children-count is 0 never calls
\* the provider and never deletes a cache entry.
C5_LeafNeverFetches ==
  [][\A n \in NodeIds :
       (Ran("handleItemExpansion", n)
          /\ Present(items, n) /\ ChildrenCount(dataSource, NodeOf(items, n)) = 0)
       => NoCall /\ cache' = cache]_vars

\* C5 witness: the fixture's leaf "c" (children count 0) was expanded while
\* its timestamp was stale and the cache held an entry for it.
C5_Witness ==
  /\ lastOp.op = "handleItemExpansion" /\ lastOp.id = "c"
  /\ dataSource = MockDataSource
  /\ Present(items, "c") /\ ChildrenCount(dataSource, NodeOf(items, "c")) = 0
  /\ "c" \in DOMAIN fetchedTimes /\ now - fetchedTimes["c"] > StaleTime
  /\ "items-c" \in DOMAIN cache

\* C6: when a fetch for A fails, every other node B keeps its loadingItems
\* membership, its errorItems entry and its place and children in the
\* snapshot.
C6_ErrorIsolation ==
  [][\A a \in NodeIds \cup {Undefined} :
       Ran("reject", a)
       => \A b \in (NodeIds \cup {"d"}) \ {a} :
            /\ (b \in loadingItems') = (b \in loadingItems)
            /\ MapGet(errorItems', b) = MapGet(errorItems, b)
            /\ findItemById(items', b) = findItemById(items, b)]_vars

\* C6 witness: the fetch for "a" failed while a fetch for "c" was in flight.
C6_Witness ==
  /\ lastOp.op = "reject" /\ lastOp.id = "a"
  /\ "c" \in loadingItems /\ InflightFor("c") # {}

\* C7: a node id is in loadingItems if and only if exactly one fetch for it
\* is in flight.
C7_LoadingIffOneInFlight ==
  \A n \in NodeIds : (n \in loadingItems) = (Cardinality(InflightFor(n)) = 1)

\* C8: no node id is in loadingItems and a key of errorItems at once.
C8_LoadingErrorDisjoint == loadingItems \cap DOMAIN errorItems = {}

\* C8 witness: "a" failed before and is being fetched again.
C8_Witness ==
  /\ lastOp.op = "retryLoadItems" /\ lastOp.id = "a" /\ lastOp.called
  /\ "a" \in loadingItems
  /\ CallsFor("a") = 2 /\ Cardinality(InflightFor("a")) = 1
  /\ "a" \notin DOMAIN fetchedTimes

\* C9 as claimed: when the fetch of loadItems(N), N defined, is rejected, N
\* leaves loadingItems, errorItems[N] is the failure's message, the failure
\* is re-raised, and snapshot, cache and fetchedTimes are untouched.
C9_RejectRecordsMessage ==
  [][\A n \in NodeIds :
       Ran("reject", n)
       => /\ n \notin loadingItems'
          /\ lastOp'.raised # None
          /\ n \in DOMAIN errorItems'
          /\ errorItems'[n] = lastOp'.raised[1].message
          /\ UNCHANGED <<items, cache, fetchedTimes>>]_vars

\* C9 amended: ... errorItems[N] is the failure's message when the failure
\* is an Error, and the text 'Failed to load items' when it is any other
\* value; the rest as claimed.
C9_RejectRecordsError ==
  [][\A n \in NodeIds :
       Ran("reject", n)
       => /\ n \notin loadingItems'
          /\ lastOp'.raised # None
          /\ n \in DOMAIN errorItems'
          /\ errorItems'[n] = IF lastOp'.raised[1].isError
                                THEN lastOp'.raised[1].message
                                ELSE "Failed to load items"
          /\ UNCHANGED <<items, cache, fetchedTimes>>]_vars

\* C9 witness: the refetch of the populated node "a" failed with a value
\* that is no Error; the fallback text is stored, the children are kept.
C9_Witness ==
  /\ lastOp.op = "reject" /\ lastOp.id = "a"
  /\ lastOp.raised # None /\ ~lastOp.raised[1].isError
  /\ "a" \in DOMAIN errorItems /\ errorItems["a"] = "Failed to load items"
  /\ "a" \notin loadingItems
  /\ HasChildren(items, "a")

\* C10: right after a fetch for N resolves successfully, errorItems has no
\* entry for N.
C10_NoErrorAfterSuccess ==
  [][\A n \in NodeIds : Ran("resolve", n) => n \notin DOMAIN errorItems']_vars

\* The cache key of parentId, written out.
KeyOf(parentId) == "items-" \o (IF parentId = Undefined THEN "root" ELSE parentId)

\* The step started a fetch.
Called == calls' # calls

\* id's timestamp is recorded and within the stale window at time t.
FreshStamp(id, t) == id \in DOMAIN fetchedTimes /\ t - fetchedTimes[id] <= StaleTime

\* C11: on a cache miss for a defined parentId, in the state in which the
\* fetch has just been started parentId is in loadingItems and has no
\* errorItems entry, whichever operation made the loadItems call.
C11_StartMarksLoading ==
  [][\A p \in NodeIds :
       ((Ran("loadItems", p) \/ Ran("retryLoadItems", p)
           \/ Ran("handleItemExpansion", p)) /\ Called)
       => /\ OneCallFor(p)
          /\ p \in loadingItems'
          /\ p \notin DOMAIN errorItems']_vars

\* C11 witness: "a" is being fetched again by an expansion after its only
\* earlier attempt failed.
C11_Witness ==
  /\ lastOp.op = "handleItemExpansion" /\ lastOp.id = "a" /\ lastOp.called
  /\ "a" \in loadingItems /\ "a" \notin DOMAIN errorItems
  /\ CallsFor("a") = 2 /\ Cardinality(InflightFor("a")) = 1
  /\ "a" \notin DOMAIN fetchedTimes

\* C12: when the fetch for parentId resolves with R, the cache entry of
\* parentId's key holds R, fetchedTimes of parentId (of "root" for a root
\* load) is the current time, the node's children are R when the node is in
\* the snapshot (the root list is R for a root load), and parentId is not in
\* loadingItems.
C12_ResolveStoresResult ==
  [][\A f \in inflight :
       \A r \in Resolutions(dataSource, f.parentId) :
         ResolveFetch(f, r)
         => LET p == f.parentId IN
              /\ KeyOf(p) \in DOMAIN cache'
              /\ cache'[KeyOf(p)].value = r
              /\ fetchedTimes'[IF p = Undefined THEN "root" ELSE p] = now'
              /\ p = Undefined => items' = r
              /\ (p # Undefined /\ Present(items, p))
                   => NodeOf(items', p).children = Some(r)
              /\ p \notin loadingItems']_vars

\* C12 witness: the fetch for "a" resolved with the list holding "c".
C12_Witness ==
  /\ lastOp.op = "resolve" /\ lastOp.id = "a"
  /\ "items-a" \in DOMAIN cache /\ cache["items-a"].value = <<ItemC>>
  /\ Present(items, "a") /\ NodeOf(items, "a").children = Some(<<ItemC>>)
  /\ "a" \in DOMAIN fetchedTimes /\ fetchedTimes["a"] = now
  /\ "a" \notin loadingItems

\* C13: while the fetch that retryLoadItems(N) started is outstanding, N is
\* in loadingItems and has no errorItems entry.
C13_RetryKeepsLoading ==
  \A f \in inflight :
    f.caller = "retryLoadItems"
      => f.parentId \in loadingItems /\ f.parentId \notin DOMAIN errorItems

\* C14 as claimed: no loadItems, handleItemExpansion or clearCache makes a
\* provider call for a parent id whose cache key held a non-expired entry
\* when the operation was invoked.
C14_OnlyRetryForces ==
  [][\A p \in NodeIds \cup {Undefined} :
       ((Ran("loadItems", p) \/ Ran("handleItemExpansion", p)
           \/ Ran("clearCache", Undefined))
          /\ FreshEntry(cache, KeyOf(p), now'))
       => ~Called]_vars

\* C14 amended: the same, for loadItems, clearCache, and a handleItemExpansion
\* of a node whose timestamp is within the stale window.
C14_OnlyRetryOrStaleForces ==
  [][\A p \in NodeIds \cup {Undefined} :
       ((Ran("loadItems", p)
           \/ (Ran("handleItemExpansion", p) /\ FreshStamp(p, now))
           \/ Ran("clearCache", Undefined))
          /\ FreshEntry(cache, KeyOf(p), now'))
       => ~Called]_vars

\* C14 witness: after "a" was loaded and the root list reloaded over it, an
\* expansion of the fresh "a" took its children from the cache.
C14_Witness ==
  /\ lastOp.op = "handleItemExpansion" /\ lastOp.id = "a" /\ ~lastOp.called
  /\ calls = <<"a", Undefined>> /\ inflight = {}
  /\ FreshEntry(cache, "items-a", now) /\ FreshStamp("a", now)
  /\ Present(items, "a")
  /\ NodeOf(items, "a").children = Some(cache["items-a"].value)

\* The expansion condition of the spec: children-count non-zero and (no
\* children array, or an empty one, or the timestamp absent or too old).
ExpansionCondition(n) ==
  /\ ChildrenCount(dataSource, NodeOf(items, n)) # 0
  /\ \/ NodeOf(items, n).children = None
     \/ NodeOf(items, n).children = Some(<<>>)
     \/ ~FreshStamp(n, now)

\* C15 as claimed: handleItemExpansion of a node found in the snapshot makes
\* a provider call if and only if the expansion condition holds.
C15_CallIffCondition ==
  [][\A n \in NodeIds :
       (Ran("handleItemExpansion", n) /\ Present(items, n) /\ dataSource # Undefined)
       => (Called <=> ExpansionCondition(n))]_vars

\* C15 amended: ... if and only if the expansion condition holds and the
\* node is stale or the cache holds no non-expired entry for its key.
C15_CallIffConditionAndMiss ==
  [][\A n \in NodeIds :
       (Ran("handleItemExpansion", n) /\ Present(items, n) /\ dataSource # Undefined)
       => /\ Called <=> /\ ExpansionCondition(n)
                        /\ (~FreshStamp(n, now) \/ ~FreshEntry(cache, KeyOf(n), now'))
          /\ Called => OneCallFor(n)]_vars

\* C15 witness: the fresh node "a", loaded with an empty children array, was
\* expanded and is being fetched.
C15_Witness ==
  /\ lastOp.op = "handleItemExpansion" /\ lastOp.id = "a" /\ lastOp.called
  /\ Present(items, "a") /\ NodeOf(items, "a").children = Some(<<>>)
  /\ FreshStamp("a", now)

\* C16: handleItemExpansion for an id no node of the snapshot carries calls
\* neither getChildrenCount nor getTreeItems, raises nothing and changes no
\* store.
C16_UnknownIdNoOp ==
  [][\A i \in ExpandIds :
       (Ran("handleItemExpansion", i) /\ ~Present(items, i))
       => /\ NoCall
          /\ ~lastOp'.counted
          /\ lastOp'.raised = None
          /\ UNCHANGED <<items, loadingItems, errorItems, cache, fetchedTimes>>]_vars

\* C16 witness: "zz" was expanded on a loaded tree with a filled cache.
C16_Witness ==
  /\ lastOp.op = "handleItemExpansion" /\ lastOp.id = "zz"
  /\ ~Present(items, "zz") /\ HasChildren(items, "a")
  /\ DOMAIN cache # {}

\* C17: clearCache leaves the cache, loadingItems and errorItems empty and
\* fetchedTimes and the snapshot as they were, fetches in flight or not.
C17_ClearCacheFrame ==
  [][Ran("clearCache", Undefined)
       => /\ DOMAIN cache' = {}
          /\ loadingItems' = {}
          /\ DOMAIN errorItems' = {}
          /\ UNCHANGED <<items, fetchedTimes, inflight, calls>>]_vars

\* C17 witness: clearCache ran with a fetch in flight, after a load.
C17_Witness ==
  /\ lastOp.op = "clearCache"
  /\ inflight # {} /\ DOMAIN fetchedTimes # {} /\ HasChildren(items, "a")
  /\ DOMAIN cache = {} /\ loadingItems = {} /\ DOMAIN errorItems = {}

\* C18: with the cache entry gone (clearCache), handleItemExpansion of a
\* loaded node with populated children makes a provider call exactly when
\* the node's timestamp is older than the stale window, and does nothing
\* before that.
C18_ClearedCacheStillFresh ==
  [][\A n \in NodeIds :
       (Ran("handleItemExpansion", n)
          /\ HasChildren(items, n) /\ ChildrenCount(dataSource, NodeOf(items, n)) # 0
          /\ n \in DOMAIN fetchedTimes
          /\ KeyOf(n) \notin DOMAIN cache)
       => /\ Called <=> now - fetchedTimes[n] > StaleTime
          /\ ~Called => UNCHANGED <<items, loadingItems, errorItems, cache,
                                    fetchedTimes, inflight>>]_vars

\* C18 witness: the cache was emptied, then the populated, fresh "a" was
\* expanded and nothing was fetched.
C18_Witness ==
  /\ lastOp.op = "handleItemExpansion" /\ lastOp.id = "a" /\ ~lastOp.called
  /\ HasChildren(items, "a") /\ FreshStamp("a", now)
  /\ DOMAIN cache = {} /\ calls = <<"a">> /\ inflight = {}

\* C19: with no data source, loadItems and handleItemExpansion call nothing,
\* raise nothing and leave snapshot, cache, loadingItems, errorItems and
\* fetchedTimes as they were.
C19_NoDataSourceNoOp ==
  [][\A p \in ExpandIds \cup {Undefined} :
       (dataSource = Undefined /\ (Ran("loadItems", p) \/ Ran("handleItemExpansion", p)))
       => /\ NoCall
          /\ lastOp'.raised = None /\ ~lastOp'.counted
          /\ UNCHANGED <<items, loadingItems, errorItems, cache, fetchedTimes>>]_vars

\* C19 witness: "a" of the supplied tree was expanded with no data source.
C19_Witness ==
  /\ dataSource = Undefined
  /\ lastOp.op = "handleItemExpansion" /\ lastOp.id = "a"
  /\ items = <<ItemA, ItemB>>

\* No two nodes of the tree carry the same id.
UniqueIds(its) ==
  LET flat == flattenTree(its) IN
    \A i, j \in 1..Len(flat) : flat[i].id = flat[j].id => i = j

\* C20: for a tree with unique ids, an id present at any depth and any
\* children list C, findItemById(updateItemsRecursively(tree, id, C), id)
\* has children C.
C20_ReplaceFindRoundTrip ==
  \A id \in TreeIds : \A children \in ChildLists :
    (UniqueIds(items) /\ Present(items, id))
      => /\ Present(updateItemsRecursively(items, id, children), id)
         /\ NodeOf(updateItemsRecursively(items, id, children), id).children
              = Some(children)

\* C20 witness: the children of "c", two levels down in a tree with unique
\* ids, were replaced.
C20_Witness ==
  /\ lastOp.op = "updateItemChildren" /\ lastOp.id = "c"
  /\ UniqueIds(items)
  /\ \A i \in 1..Len(items) : items[i].id # "c"
  /\ Present(items, "c") /\ NodeOf(items, "c").children = Some(<<ItemD>>)

\* C21: updateItemsRecursively(tree, id, C) for an id that no node of the
\* tree carries returns the tree as it was: the same nodes in the same order
\* with the same labels, children counts and children at every depth.
C21_MissingIdUnchanged ==
  \A id \in TreeIds : \A children \in ChildLists :
    ~Present(items, id) => updateItemsRecursively(items, id, children) = items

\* C21 witness: updateItemChildren("zz", ...) ran on a tree three levels
\* deep that has no node "zz".
C21_Witness ==
  /\ lastOp.op = "updateItemChildren" /\ lastOp.id = "zz"
  /\ ~Present(items, "zz")
  /\ HasChildren(items, "a") /\ HasChildren(items, "c")
  /\ NodeOf(items, "b").children = None

\* The entry of key k counts as absent at time t: none exists, or its age
\* is greater than its ttl.
AbsentAt(c, k, t) == k \notin DOMAIN c \/ t - c[k].timestamp > c[k].ttl

\* C22: get(key) and has(key) report absent exactly when the key has no
\* entry or now - timestamp > ttl (an entry whose age equals its ttl is
\* returned), and then the cache holds no entry for the key afterwards.
C22_LazyExpiry ==
  [][\A k \in CacheKeys :
       /\ Ran("get", k)
            => /\ (lastOp'.returned = Some(None)) <=> AbsentAt(cache, k, now)
               /\ ~AbsentAt(cache, k, now)
                    => lastOp'.returned = Some(Some(cache[k].value))
       /\ Ran("has", k)
            => lastOp'.returned = Some(~AbsentAt(cache, k, now))
       /\ ((Ran("get", k) \/ Ran("has", k)) /\ AbsentAt(cache, k, now))
            => k \notin DOMAIN cache']_vars

\* C22 witness: has("items-a") found an entry older than its ttl, answered
\* false and removed it, the other key's entry, of age equal to its ttl,
\* staying.
C22_Witness ==
  /\ lastOp.op = "has" /\ lastOp.id = "items-a"
  /\ "items-a" \in DOMAIN lastOp.found
  /\ lastOp.returned = Some(FALSE)
  /\ "items-a" \notin DOMAIN cache
  /\ "items-root" \in DOMAIN cache
  /\ now - cache["items-root"].timestamp = cache["items-root"].ttl
  /\ cache["items-root"].ttl > 0

\* The ttl an entry written by set(key, value, ttl) carries.
TtlOf(ttl) == IF ttl = None THEN DefaultTtl ELSE ttl[1]

\* C23: set(key, value, ttl?) overwrites the key's entry: afterwards its
\* value is the new value, its timestamp the time of the set and its ttl the
\* given ttl (the default when omitted); a get at any time up to timestamp +
\* ttl returns the new value; the entries of other keys are unchanged.
C23_SetOverwrites ==
  [][\A k \in CacheKeys : \A v \in CacheValues : \A ttl \in TtlArgs :
       CacheOpSet(k, v, ttl)
       => /\ k \in DOMAIN cache'
          /\ cache'[k] = [value |-> v, timestamp |-> now, ttl |-> TtlOf(ttl)]
          /\ \A t \in now..(MaxTime + 1) :
               t - now <= TtlOf(ttl) => CacheGet(cache', k, t) = Some(v)
          /\ \A o \in CacheKeys \ {k} : MapGet(cache', o) = MapGet(cache, o)]_vars

\* C23 witness: set("items-a", ...) with a ttl argument replaced an older
\* entry that had another value and another ttl.
C23_Witness ==
  /\ lastOp.op = "set" /\ lastOp.id = "items-a"
  /\ "items-a" \in DOMAIN lastOp.found /\ "items-a" \in DOMAIN cache
  /\ lastOp.found["items-a"].timestamp < now
  /\ lastOp.found["items-a"].value # cache["items-a"].value
  /\ lastOp.found["items-a"].ttl = DefaultTtl
  /\ cache["items-a"] = [value |-> <<ItemC>>, timestamp |-> now,
                         ttl |-> DefaultTtl + 1]
  /\ "items-root" \in DOMAIN cache

\* C24: cleanup() removes exactly the entries with now - timestamp > ttl and
\* leaves every other entry as it was; get and has answer for every key, now
\* and at every later time, as they would have without the cleanup.
C24_CleanupExact ==
  [][Ran("cleanup", Undefined)
       => /\ DOMAIN cache' = {k \in DOMAIN cache : ~AbsentAt(cache, k, now)}
          /\ \A k \in DOMAIN cache' : cache'[k] = cache[k]
          /\ \A k \in CacheKeys : \A t \in now..(MaxTime + 1) :
               /\ CacheGet(cache', k, t) = CacheGet(cache, k, t)
               /\ CacheHas(cache', k, t) = CacheHas(cache, k, t)]_vars

\* C24 witness: cleanup() found an expired entry and one whose age equals
\* its ttl, removed the first and kept the second.
C24_Witness ==
  /\ lastOp.op = "cleanup"
  /\ DOMAIN lastOp.found = {"items-a", "items-root"}
  /\ DOMAIN cache = {"items-root"}
  /\ now - lastOp.found["items-a"].timestamp > lastOp.found["items-a"].ttl
  /\ now - cache["items-root"].timestamp = cache["items-root"].ttl
  /\ cache["items-root"] = lastOp.found["items-root"]

\* The one child of d is a synthetic node carrying the loading flag, the
\* error message msg, or the placeholder flag.
OnlyChild(d) == d.children[1][1]
HasOneChild(d) == d.children # None /\ Len(d.children[1]) = 1
LoadingDecoration(d) ==
  HasOneChild(d) /\ OnlyChild(d).slotProps.item.isLoading
ErrorDecoration(d, msg) ==
  HasOneChild(d) /\ OnlyChild(d).slotProps.item.error = Some(msg)
PlaceholderDecoration(d) ==
  HasOneChild(d) /\ OnlyChild(d).slotProps.item.isPlaceholder

\* dec decorates raw as C25 says, under loading set ld and error map er.
RECURSIVE DecoratedAs(_, _, _, _)
DecoratedAs(raw, dec, ld, er) ==
  /\ Len(dec) = Len(raw)
  /\ \A i \in 1..Len(raw) :
       LET r == raw[i]
           d == dec[i]
       IN /\ d.id = r.id /\ d.label = r.label
          /\ IF r.id \in ld THEN LoadingDecoration(d)
             ELSE IF r.id \in DOMAIN er THEN ErrorDecoration(d, er[r.id])
             ELSE IF ChildrenCount(dataSource, r) # 0
                     /\ (r.children = None \/ Len(r.children[1]) = 0)
               THEN PlaceholderDecoration(d)
             ELSE IF r.children = None THEN d.children = None
             ELSE /\ d.children # None
                  /\ DecoratedAs(r.children[1], d.children[1], ld, er)

\* C25: with a data source, in the decorated snapshot every node that is in
\* loadingItems, or has an errorItems entry, or has a non-zero children
\* count but no loaded children, has exactly one child, a synthetic node
\* carrying the loading flag, the error message or the placeholder flag
\* (in that order of precedence); every other node keeps its real children,
\* decorated in the same way.
C25_Decoration ==
  (lastOp.op = "enhancedItems" /\ dataSource # Undefined)
    => DecoratedAs(items, lastOp.returned[1], loadingItems, errorItems)

\* C26: with dataSourceCache = null, every loadItems(parentId) call invokes
\* the provider; none is served from a cached result.
C26_NullCacheDisablesCaching ==
  [][\A p \in NodeIds \cup {Undefined} :
       Ran("loadItems", p) => OneCallFor(p)]_vars

\* C27: when the fetch for node N resolves after N has left the snapshot,
\* the resolution leaves the snapshot as it is, raises and records no
\* error, and removes N from loadingItems.
C27_LateResultAbsorbed ==
  [][\A f \in inflight :
       \A r \in Resolutions(dataSource, f.parentId) :
         (ResolveFetch(f, r) /\ f.parentId # Undefined
            /\ ~Present(items, f.parentId))
         => /\ items' = items
            /\ errorItems' = errorItems
            /\ lastOp'.raised = None
            /\ f.parentId \notin loadingItems']_vars

\* C27 witness: "c" was expanded while it was in the supplied tree (the
\* component fetches for a node only when it expands it), the initial load
\* replaced the root list, and then the fetch for "c" resolved.
C27_Witness ==
  /\ lastOp.op = "resolve" /\ lastOp.id = "c"
  /\ items = <<ItemA, ItemB>> /\ ~Present(items, "c")
  /\ calls = <<Undefined, "c">> /\ inflight = {}
  /\ "c" \notin loadingItems /\ DOMAIN errorItems = {}
  /\ "items-c" \in DOMAIN cache

\* C28: when two fetches for the same parent overlap and both resolve, then
\* after the second resolution the cache entry of the parent's key and the
\* node's children (the root list for a root load) are the result of the
\* fetch that resolved last, whichever of the two was started first.  (A
\* fetch in flight right after a resolution for the same parent was started
\* before that resolution.)
C28_LastWriteWins ==
  [][\A f \in inflight :
       \A r \in Resolutions(dataSource, f.parentId) :
         (ResolveFetch(f, r)
            /\ lastOp.op = "resolve" /\ lastOp.id = f.parentId)
         => LET p == f.parentId IN
              /\ KeyOf(p) \in DOMAIN cache' /\ cache'[KeyOf(p)].value = r
              /\ p = Undefined => items' = r
              /\ (p # Undefined /\ Present(items, p))
                   => NodeOf(items', p).children = Some(r)]_vars

\* C28 witness: two fetches for "a" were started and have settled within
\* one tick of the clock, the last resolution leaving the empty list in the
\* cache and in the snapshot.
C28_Witness ==
  /\ lastOp.op = "resolve" /\ lastOp.id = "a"
  /\ calls = <<"a", "a">> /\ inflight = {}
  /\ "a" \notin DOMAIN errorItems
  /\ now = 1
  /\ "items-a" \in DOMAIN cache /\ cache["items-a"].value = <<>>
  /\ Present(items, "a") /\ NodeOf(items, "a").children = Some(<<>>)

\* C29: for as long as the provider call started for node N has neither
\* resolved nor rejected, N is in loadingItems, whatever operations run and
\* however much time passes in between.
C29_PendingStaysLoading ==
  \A f \in inflight : f.parentId # Undefined => f.parentId \in loadingItems

\* C30: with a root list holding the one node "a" (children count 1), the
\* session expand, collapse, re-expand within the stale window, wait until
\* the window has passed, collapse, re-expand makes exactly two provider
\* calls for "a": one at the first expansion, none at the second, one at the
\* third.
C30_TwoCallsEndToEnd ==
  /\ script.pos \in 1..4 => CallsFor("a") = 1
  /\ script.pos = 5 => CallsFor("a") = 2

\* C30 witness: the session is through its third expansion, made after the
\* stale window of the first fetch had passed.
C30_Witness ==
  /\ script.pos = 5
  /\ lastOp.op = "handleItemExpansion" /\ lastOp.id = "a" /\ lastOp.called
  /\ script.resolvedAt > 0 /\ now > script.resolvedAt + StaleTime
  /\ calls = <<Undefined, "a", "a">>

\* The ids of the nodes of a tree, and of the nodes below node p.
Ids(its) == {flattenTree(its)[i].id : i \in 1..Len(flattenTree(its))}
Below(its, p) ==
  IF Present(its, p) /\ NodeOf(its, p).children # None
    THEN Ids(NodeOf(its, p).children[1])
    ELSE {}

\* A node's own fields, and the ids of its children in order.
OwnFields(n) == <<n.id, n.label, n.childrenCount>>
ChildIds(n) ==
  IF n.children = None THEN None
  ELSE Some([i \in 1..Len(n.children[1]) |-> n.children[1][i].id])

\* after differs from before only inside p, whose children are exactly r.
OnlyInside(before, after, p, r) ==
  LET below == Below(before, p)
      ids == Ids(before)
      old == findItemById(before, p)
      new == findItemById(after, p)
  IN /\ new # None
     /\ new[1] = [old[1] EXCEPT !.children = Some(r)]
     /\ Len(after) = Len(before)
     /\ \A i \in 1..Len(before) : after[i].id = before[i].id
     /\ Ids(after) = (ids \ below) \cup Ids(r)
     /\ \A n \in ids \ ({p} \cup below) :
          LET was == findItemById(before, n)
              is == findItemById(after, n)
          IN /\ is # None
             /\ \/ is[1] = was[1]
                \/ /\ p \in Below(before, n)
                   /\ OwnFields(is[1]) = OwnFields(was[1])
                   /\ ChildIds(is[1]) = ChildIds(was[1])

\* C34: when a fetched or cached list is applied for a node P of the
\* snapshot, the new snapshot differs from the old one only inside P: P's
\* children are exactly the delivered list (children loaded for P's
\* descendants are gone), P's id, label and children count and every node
\* outside P's subtree are as before.
C34_OnlyInsideParent ==
  [][LET p == lastOp'.id IN
       /\ (Ran("resolve", p) /\ p \in NodeIds /\ Present(items, p))
            => OnlyInside(items, items', p, cache'[KeyOf(p)].value)
       /\ ((Ran("loadItems", p) \/ Ran("handleItemExpansion", p))
             /\ p \in NodeIds
             /\ Present(items, p) /\ FreshEntry(cache, KeyOf(p), now')
             /\ (lastOp'.op = "handleItemExpansion"
                  => (FreshStamp(p, now) /\ ExpansionCondition(p))))
            => OnlyInside(items, items', p, cache[KeyOf(p)].value)]_vars

\* C34 witness: after "a" and then "c" were fetched, loadItems("a") applied
\* the cached list for "a": "c" is back without the children it had, "b" is
\* as it was.
C34_Witness ==
  /\ lastOp.op = "loadItems" /\ lastOp.id = "a" /\ ~lastOp.called
  /\ calls = <<"a", "c">> /\ inflight = {}
  /\ "c" \in DOMAIN fetchedTimes /\ "c" \notin DOMAIN errorItems
  /\ Present(items, "a") /\ NodeOf(items, "a").children = Some(<<ItemC>>)
  /\ Present(items, "b") /\ NodeOf(items, "b") = ItemB

\* The call for p is served from a non-expired cache entry.
ServedFromCache(p) ==
  /\ FreshEntry(cache, KeyOf(p), now')
  /\ \/ Ran("loadItems", p)
     \/ /\ Ran("handleItemExpansion", p)
        /\ p # Undefined /\ Present(items, p)
        /\ FreshStamp(p, now) /\ ExpansionCondition(p)

\* C35: a loadItems call served from the cache changes the snapshot only:
\* the cache, the loading flags, the error entries (an entry for the same
\* node included) and the fetch timestamps are as before, and the provider
\* is not called.
C35_CacheHitOnlySnapshot ==
  [][\A p \in NodeIds \cup {Undefined} :
       ServedFromCache(p)
       => /\ UNCHANGED <<cache, loadingItems, errorItems, fetchedTimes>>
          /\ NoCall
          /\ items' = IF p = Undefined
                         THEN cache[KeyOf(p)].value
                         ELSE updateItemsRecursively(items, p, cache[KeyOf(p)].value)]_vars

\* C35 witness: loadItems("a") was served from the cache while "a" had an
\* error entry from an overlapping fetch that failed; the entry is still
\* there and "a" has the cached children.
C35_Witness ==
  /\ lastOp.op = "loadItems" /\ lastOp.id = "a" /\ ~lastOp.called
  /\ "a" \in DOMAIN errorItems
  /\ FreshEntry(cache, "items-a", now)
  /\ Present(items, "a")
  /\ NodeOf(items, "a").children = Some(cache["items-a"].value)

\* C36: a root load never touches the per-node flags: starting, resolving
\* or failing a loadItems() without parentId leaves the loading flags and
\* the error entries as they are, and a failing root fetch leaves the
\* snapshot, the cache and the fetch timestamps unchanged as well; the
\* failure is only raised to the caller.
C36_RootLoadNoFlags ==
  [][/\ (Ran("loadItems", Undefined) \/ Ran("resolve", Undefined)
           \/ Ran("reject", Undefined))
         => UNCHANGED <<loadingItems, errorItems>>
     /\ \A f \in inflight : \A e \in Errors :
          (f.parentId = Undefined /\ RejectFetch(f, e))
          => /\ UNCHANGED <<items, cache, fetchedTimes, loadingItems, errorItems>>
             /\ lastOp'.raised = Some(e)]_vars

\* C36 witness: a root fetch failed while "a" was loading; the flag is
\* still there, no error entry was made, nothing was cached or stamped.
C36_Witness ==
  /\ lastOp.op = "reject" /\ lastOp.id = Undefined /\ lastOp.raised # None
  /\ loadingItems = {"a"} /\ errorItems = EmptyMap
  /\ items = <<ItemA, ItemB>>
  /\ "items-root" \notin DOMAIN cache /\ "root" \notin DOMAIN fetchedTimes

\* The key of fetchedTimes for parentId, written out.
StampOf(parentId) == IF parentId = Undefined THEN "root" ELSE parentId

\* C38 as claimed: the cache holds entries only for parents with a recorded
\* fetch: for every entry of the cache, FetchTimestamps has an entry for the
\* same parent (or the root key), and its value is the time the cache entry
\* was created.
C38_CacheEntryHasStamp ==
  /\ DOMAIN cache \subseteq {KeyOf(p) : p \in NodeIds \cup {Undefined}}
  /\ \A p \in NodeIds \cup {Undefined} :
       KeyOf(p) \in DOMAIN cache
       => /\ StampOf(p) \in DOMAIN fetchedTimes
          /\ fetchedTimes[StampOf(p)] = cache[KeyOf(p)].timestamp

\* C38 amended: ... and its value is the cache entry's creation time or
\* later (the entry is stamped by cache.set, the fetch time is read from the
\* clock after it).
C38_StampNotBeforeEntry ==
  /\ DOMAIN cache \subseteq {KeyOf(p) : p \in NodeIds \cup {Undefined}}
  /\ \A p \in NodeIds \cup {Undefined} :
       KeyOf(p) \in DOMAIN cache
       => /\ StampOf(p) \in DOMAIN fetchedTimes
          /\ fetchedTimes[StampOf(p)] >= cache[KeyOf(p)].timestamp

\* C38 witness: the root list was fetched, then "a"; the clock moved while
\* the result for "a" was being stored: the entry carries the time before,
\* the fetch timestamp the time after.
C38_Witness ==
  /\ lastOp.op = "resolve" /\ lastOp.id = "a"
  /\ calls = <<Undefined, "a">> /\ inflight = {}
  /\ "items-root" \in DOMAIN cache /\ "root" \in DOMAIN fetchedTimes
  /\ "items-a" \in DOMAIN cache /\ cache["items-a"].timestamp = 1
  /\ fetchedTimes["a"] = 2

\* The nodes of a list without their children arrays.
Bare(its) == [i \in 1..Len(its) |-> OwnFields(its[i])]

\* Node n is in the snapshot with a children array and the cache holds a
\* non-expired entry for its key.
CachedAndLoaded(n) ==
  /\ FreshEntry(cache, CacheKey(n), now)
  /\ Present(items, n)
  /\ NodeOf(items, n).children # None

\* C39 as claimed: a node that has a children array and a non-expired cache
\* entry has the cached value as its children array.
C39_ChildrenEqualCache ==
  \A n \in NodeIds :
    CachedAndLoaded(n)
    => NodeOf(items, n).children[1] = cache[CacheKey(n)].value

\* C39 amended: a node that has a children array and a non-expired cache
\* entry has the cached nodes as its children, in the cached order and with
\* the cached id, label and children count; the children may have children
\* arrays loaded since, which the cached value does not have.
C39_ChildrenAreCachedNodes ==
  \A n \in NodeIds :
    CachedAndLoaded(n)
    => Bare(NodeOf(items, n).children[1]) = Bare(cache[CacheKey(n)].value)

\* C39 witness: "a" is cached and loaded, and its child "c" has had its own
\* children loaded, so "a"'s children array is no longer the cached value.
C39_Witness ==
  /\ CachedAndLoaded("a") /\ CachedAndLoaded("c")
  /\ cache["items-a"].value = <<ItemC>>
  /\ NodeOf(items, "a").children[1] = <<[ItemC EXCEPT !.children = Some(<<ItemD>>)]>>

\* ------------------------------------------------ a node whose id is "root"
\* The hook over a root list whose one node has the id "root".
ItemRoot == Item("root", "Root", 1)
RootIdNodes == {"root"}

InitRootId ==
  /\ items = <<ItemRoot>>
  /\ loadingItems = {}
  /\ errorItems = EmptyMap
  /\ cache = EmptyMap
  /\ fetchedTimes = EmptyMap
  /\ now = 1
  /\ dataSource = AppDataSource
  /\ inflight = {}
  /\ calls = <<>>
  /\ lastOp = Op("init", Undefined, FALSE, None)
  /\ script = ScriptStart
  /\ view = ViewStart

NextRootId ==
  \/ \E p \in RootIdNodes \cup {Undefined} : LoadItems(p) /\ UNCHANGED <<script, view>>
  \/ \E p \in RootIdNodes : RetryLoadItems(p) /\ UNCHANGED <<script, view>>
  \/ \E i \in RootIdNodes : HandleItemExpansion(i, items) /\ UNCHANGED <<script, view>>
  \/ \E f \in inflight : \E r \in Resolutions(dataSource, f.parentId) : ResolveFetch(f, r) /\ UNCHANGED <<script, view>>
  \/ \E f \in inflight : \E e \in Rejections(dataSource) : RejectFetch(f, e) /\ UNCHANGED <<script, view>>
  \/ Tick /\ UNCHANGED <<script, view>>

SpecRootId == InitRootId /\ [][NextRootId]_vars

\* A step of a load of node n: its start by any caller, or its settling.
NodeLoadStep(n) ==
  \/ Ran("loadItems", n) \/ Ran("retryLoadItems", n)
  \/ Ran("handleItemExpansion", n)
  \/ Ran("resolve", n) \/ Ran("reject", n)

\* C37 as claimed: a load, retry or expansion of a node, the node "root"
\* included, leaves the root list's cache entry and timestamp as they are,
\* and a root load leaves every node's cache entry and timestamp as they
\* are.
C37_RootKeysNotShared ==
  [][\A n \in RootIdNodes :
       /\ NodeLoadStep(n)
          => /\ MapGet(cache', CacheKey(Undefined)) = MapGet(cache, CacheKey(Undefined))
             /\ MapGet(fetchedTimes', TimeKey(Undefined)) = MapGet(fetchedTimes, TimeKey(Undefined))
       /\ NodeLoadStep(Undefined)
          => /\ MapGet(cache', "items-" \o n) = MapGet(cache, "items-" \o n)
             /\ MapGet(fetchedTimes', n) = MapGet(fetchedTimes, n)]_vars

\* ------------------------------------------------------ loading always ends
\* The session: a mounted hook with a data source and the root list
\* supplied, whose operations are invoked for the nodes LiveIds.
LiveIds == {"a", "c"}

InitLive == Init /\ dataSource # Undefined /\ items = <<ItemA, ItemB>>

\* An operation of the hook is invoked.
OpStep ==
  \/ \E p \in LiveIds : LoadItems(p) /\ UNCHANGED <<script, view>>
  \/ \E p \in LiveIds : RetryLoadItems(p) /\ UNCHANGED <<script, view>>
  \/ \E i \in LiveIds : HandleItemExpansion(i, items) /\ UNCHANGED <<script, view>>
  \/ ClearCache /\ UNCHANGED <<script, view>>

\* The provider call with number fid resolves or rejects.
Settle(fid) ==
  \E f \in inflight :
    /\ f.fid = fid
    /\ \/ \E r \in Resolutions(dataSource, f.parentId) : ResolveFetch(f, r)
       \/ \E e \in Rejections(dataSource) : RejectFetch(f, e)
    /\ UNCHANGED <<script, view>>

NextLive ==
  \/ OpStep
  \/ \E fid \in 1..MaxCalls : Settle(fid)
  \/ Tick /\ UNCHANGED <<script, view>>

\* The hook with a provider whose every call eventually resolves or rejects.
SpecLive ==
  InitLive /\ [][NextLive]_vars /\ \A fid \in 1..MaxCalls : WF_vars(Settle(fid))

\* Node n has an error entry or a fetch timestamp.
HasEntry(n) == n \in DOMAIN errorItems \/ n \in DOMAIN fetchedTimes

\* A fetch for node n was started.
Started(n) == \E i \in 1..Len(calls) : calls[i] = n

\* C40 as claimed: unless operations are invoked again and again,
\* eventually and from then on no node is loading and every node a fetch
\* was started for has an error entry or a fetch timestamp.
C40_LoadingEndsAllEntered ==
  \/ []<><<OpStep>>_vars
  \/ <>[](/\ loadingItems = {}
          /\ \A n \in NodeIds : Started(n) => HasEntry(n))

\* C40 amended: unless operations are invoked again and again, eventually
\* and from then on no node is loading and no fetch is in flight; a fetch
\* that resolves leaves a fetch timestamp for its node, one that rejects an
\* error entry, and the node keeps an entry until the next operation.
C40_LoadingEnds ==
  /\ \/ []<><<OpStep>>_vars
     \/ <>[](loadingItems = {} /\ inflight = {})
  /\ [][\A n \in NodeIds :
          /\ Ran("resolve", n) => n \in DOMAIN fetchedTimes'
          /\ Ran("reject", n) => n \in DOMAIN errorItems'
          /\ (HasEntry(n) /\ ~OpStep) => HasEntry(n)']_vars

\* C40 witness: two fetches were started and both have settled, one with a
\* failure and one with a result; no node is loading.
C40_Witness ==
  /\ lastOp.op \in {"resolve", "reject"}
  /\ calls = <<"a", "c">> /\ inflight = {} /\ loadingItems = {}
  /\ "a" \in DOMAIN errorItems /\ "a" \notin DOMAIN fetchedTimes
  /\ "c" \in DOMAIN fetchedTimes /\ "c" \notin DOMAIN errorItems

\* ------------------------------------------- RichTreeViewPlus and its hook
\* The objects passed as dataSource, by identity; NoSource: the prop is
\* left out.
Sources == {1, 2}
NoSource == 0

\* The dataSource prop of a render that passes s.
SourceProp(s) == IF s = NoSource THEN Undefined ELSE AppDataSource

\* The lists a parent passes as expandedItems.
ExpandedLists == {<<>>, <<"a">>, <<"c">>, <<"a", "c">>, <<"c", "a">>}

\* The state of the hook as one value, with the clock: now is the value
\* Date.now() gave last, reads counts the reads a handler has made, and the
\* clock moves on by one right before the read numbered tickAt (0: it does
\* not move while the handler runs).
HookState ==
  [items |-> items, loadingItems |-> loadingItems, errorItems |-> errorItems,
   cache |-> cache, fetchedTimes |-> fetchedTimes, inflight |-> inflight,
   calls |-> calls, now |-> now, reads |-> 0, tickAt |-> 0]

\* Date.now() is read: h.now is the value read.
ReadClock(h) ==
  LET n == h.reads + 1
  IN [h EXCEPT !.reads = n, !.now = IF n = h.tickAt THEN @ + 1 ELSE @]

\* loadItems(parentId) up to the await (LoadItemsSync), from hook state h;
\* cache.get reads the clock when the key has an entry.
LoadItemsIn(h, op, parentId, c0) ==
  LET cacheKey == CacheKey(parentId)
      hr == IF cacheKey \in DOMAIN c0 THEN ReadClock(h) ELSE h
      cachedItems == CacheGet(c0, cacheKey, hr.now)
      c1 == CacheAfterGet(c0, cacheKey, hr.now)
  IN IF NoDataSource(dataSource)
       THEN [h EXCEPT !.cache = c0]
     ELSE IF cachedItems # None
       THEN [hr EXCEPT !.items = IF Truthy(parentId)
                                   THEN updateItemsRecursively(h.items, parentId, cachedItems[1])
                                   ELSE cachedItems[1],
                       !.cache = c1]
       ELSE [hr EXCEPT !.loadingItems = IF Truthy(parentId)
                                          THEN LoadingAdd(h.loadingItems, parentId)
                                          ELSE h.loadingItems,
                       !.errorItems = IF Truthy(parentId)
                                        THEN ErrorDelete(h.errorItems, parentId)
                                        ELSE h.errorItems,
                       !.cache = c1,
                       !.calls = Append(h.calls, parentId),
                       !.inflight = h.inflight \cup
                          {[fid |-> Len(h.calls) + 1, parentId |-> parentId, caller |-> op]}]

\* handleItemExpansion(itemId, currentItems) (HandleItemExpansion), from
\* hook state h; the staleness test reads the clock when a fetch time is
\* recorded for the item.
HandleItemExpansionIn(h, itemId, currentItems) ==
  LET found == findItemById(currentItems, itemId) IN
    IF NoDataSource(dataSource) \/ found = None
      THEN h
      ELSE LET lastFetched == MapGet(h.fetchedTimes, itemId)
               hr == IF lastFetched # None /\ lastFetched[1] # 0
                       THEN ReadClock(h)
                       ELSE h
               isStale == IsStale(lastFetched, hr.now)
           IN IF NeedsLoad(found[1], isStale)
                THEN LoadItemsIn(hr, "handleItemExpansion", itemId,
                                 IF isStale
                                   THEN CacheDelete(hr.cache, "items-" \o itemId)
                                   ELSE hr.cache)
                ELSE hr

\* newlyExpanded.forEach((itemId) => handleItemExpansion(itemId, internalItems))
RECURSIVE ForEachExpansion(_, _, _)
ForEachExpansion(h, ids, internalItems) ==
  IF ids = <<>> THEN h
  ELSE ForEachExpansion(HandleItemExpansionIn(h, Head(ids), internalItems),
                        Tail(ids), internalItems)

\* The reads of Date.now() before which the clock can move while a handler
\* runs that expands ids: every read after the handler's first, each
\* handleItemExpansion call making two reads at most.
TickPoints(ids) == {0} \cup (2..(2 * Len(ids)))

\* The hook's state after the handler: the state updates it queued, and
\* the clock as the handler's last read left it.
SetHookState(h) ==
  /\ Len(h.calls) <= MaxViewCalls
  /\ h.tickAt <= h.reads
  /\ h.now <= MaxTime
  /\ items' = h.items
  /\ loadingItems' = h.loadingItems
  /\ errorItems' = h.errorItems
  /\ cache' = h.cache
  /\ fetchedTimes' = h.fetchedTimes
  /\ inflight' = h.inflight
  /\ calls' = h.calls
  /\ now' = h.now

Elements(ids) == {ids[i] : i \in 1..Len(ids)}

\* itemIds.filter(id => !previous.includes(id))
newlyExpanded(itemIds, previous) ==
  LET isNew(id) == id \notin Elements(previous) IN SelectSeq(itemIds, isNew)

\* The decorated list its shows item id with an expansion toggle: every
\* ancestor of the item is expanded and the item has children there.
RECURSIVE Shown(_, _, _)
Shown(its, id, expanded) ==
  \E i \in 1..Len(its) :
    LET item == its[i]
        children == IF "children" \in DOMAIN item /\ item.children # None
                      THEN item.children[1]
                      ELSE <<>>
    IN \/ item.id = id /\ children # <<>>
       \/ item.id \in Elements(expanded) /\ Shown(children, id, expanded)

\* <RichTreeView items={enhancedItems} />: the user can click the toggle of
\* item id.
Toggleable(id) ==
  Shown(enhanceItemsWithStates(items, loadingItems, errorItems, dataSource),
        id, view.expanded)

\* The expansion list the tree view reports when item id is clicked.
Toggled(expanded, id) ==
  IF id \in Elements(expanded)
    THEN LET others(e) == e # id IN SelectSeq(expanded, others)
    ELSE <<id>> \o expanded

\* What a handler of the component did: the ids it called
\* handleItemExpansion for, in order.
ViewOp(op, handled, called) ==
  [Op(op, Undefined, called, None) EXCEPT !.returned = Some(handled)]

InitView ==
  /\ items \in ComponentItems
  /\ loadingItems = {}
  /\ errorItems = EmptyMap
  /\ cache = EmptyMap
  /\ fetchedTimes = EmptyMap
  /\ now = 1
  /\ inflight = {}
  /\ calls = <<>>
  /\ lastOp = Op("init", Undefined, FALSE, None)
  /\ script = ScriptStart
  /\ view \in {[ViewStart EXCEPT !.controlled = c, !.source = s] :
                 c \in BOOLEAN, s \in {NoSource, 1}}
  /\ dataSource = SourceProp(view.source)

\* The initial-load effect, run after a render with ds as the dataSource
\* prop (NoSource: none is passed); the render has assigned
\* dataSourceRef.current = dataSource, in the component and in the hook.
\* Without a data source the effect returns before it touches
\* didInitialLoadRef.
InitialLoadEffect(ds) ==
  LET currentDataSource == ds
      didInitialLoad == IF ds # currentDataSource THEN FALSE ELSE view.didInitialLoad
      returns == /\ lastOp' = Op("initialLoadEffect", Undefined, FALSE, None)
                 /\ dataSource' = SourceProp(ds)
                 /\ UNCHANGED <<items, loadingItems, errorItems, cache,
                                fetchedTimes, now, inflight, calls>>
  IN IF currentDataSource = NoSource
       THEN /\ returns
            /\ view' = [view EXCEPT !.mounted = TRUE, !.source = ds]
       ELSE IF ~didInitialLoad
         THEN /\ LoadItemsWith("loadItems", Undefined, cache, now, SourceProp(ds))
              /\ view' = [view EXCEPT !.mounted = TRUE, !.source = ds,
                                      !.didInitialLoad = TRUE]
         ELSE /\ returns
              /\ view' = [view EXCEPT !.mounted = TRUE, !.source = ds,
                                      !.didInitialLoad = didInitialLoad]

\* The component is mounted: its effects run for the first time.  The
\* controlled-expansion effect finds the list it was initialised with.
Mount ==
  /\ ~view.mounted
  /\ InitialLoadEffect(view.source)
  /\ UNCHANGED script

\* The parent renders the component with another dataSource prop: another
\* object, an object where there was none, or none where there was one.
\* The effect's dependency changed, it runs again.
SetDataSource(ds) ==
  /\ view.mounted
  /\ ds # view.source
  /\ InitialLoadEffect(ds)
  /\ UNCHANGED script

\* The parent renders the component again with the props it had: no
\* dependency changed, no effect runs.
Rerender ==
  /\ view.mounted
  /\ lastOp' = Op("render", Undefined, FALSE, None)
  /\ UNCHANGED <<items, loadingItems, errorItems, cache, fetchedTimes, now,
                 dataSource, inflight, calls, script, view>>

\* handleExpandedItemsChange(event, itemIds); without the expandedItems
\* prop the tree view keeps itemIds as its expansion state.
HandleExpandedItemsChange(itemIds) ==
  LET isControlledExpansion == view.controlled
      previousExpanded == IF isControlledExpansion THEN view.expanded ELSE <<>>
      handled == IF ~isControlledExpansion /\ ~NoDataSource(dataSource)
                   THEN newlyExpanded(itemIds, previousExpanded)
                   ELSE <<>>
  IN /\ view.mounted
     /\ \E k \in TickPoints(handled) :
          LET h == ForEachExpansion([HookState EXCEPT !.tickAt = k], handled, items)
          IN /\ SetHookState(h)
             /\ lastOp' = ViewOp("handleExpandedItemsChange", handled, h.calls # calls)
     /\ view' = IF isControlledExpansion
                  THEN view
                  ELSE [view EXCEPT !.expanded = itemIds]
     /\ UNCHANGED <<dataSource, script>>

\* The user clicks the toggle of a shown item.
ToggleItem(id) ==
  /\ Toggleable(id)
  /\ HandleExpandedItemsChange(Toggled(view.expanded, id))

\* The parent passes another list as expandedItems: the controlled
\* expansion effect runs.
SetExpandedItems(controlledExpandedItems) ==
  LET previous == view.prevControlledExpanded
      handled == newlyExpanded(controlledExpandedItems, previous)
  IN /\ view.mounted /\ view.controlled
     /\ controlledExpandedItems # view.expanded
     /\ \E k \in TickPoints(handled) :
          LET h == ForEachExpansion([HookState EXCEPT !.tickAt = k], handled, items)
          IN /\ SetHookState(h)
             /\ lastOp' = ViewOp("expandedItemsEffect", handled, h.calls # calls)
     /\ view' = [view EXCEPT !.expanded = controlledExpandedItems,
                             !.prevControlledExpanded = controlledExpandedItems]
     /\ UNCHANGED <<dataSource, script>>

NextView ==
  \/ Mount
  \/ \E ds \in Sources \cup {NoSource} : SetDataSource(ds)
  \/ Rerender
  \/ \E id \in NodeIds : ToggleItem(id)
  \/ \E l \in ExpandedLists : SetExpandedItems(l)
  \/ \E f \in inflight : \E r \in Resolutions(dataSource, f.parentId) :
       view.mounted /\ ResolveFetch(f, r) /\ UNCHANGED <<script, view>>
  \/ \E f \in inflight : \E e \in Rejections(dataSource) :
       view.mounted /\ RejectFetch(f, e) /\ UNCHANGED <<script, view>>
  \/ view.mounted /\ Tick /\ UNCHANGED <<script, view>>

SpecView == InitView /\ [][NextView]_vars

\* The ids the last handler called handleItemExpansion for.
Handled(op) == op.returned[1]

\* No id occurs twice in ids.
NoRepeat(ids) == \A i, j \in 1..Len(ids) : ids[i] = ids[j] => i = j

\* The expansion list changes: through a click, or through the prop.
ExpansionChange ==
  \/ \E id \in NodeIds : ToggleItem(id)
  \/ \E l \in ExpandedLists : SetExpandedItems(l)

\* C31 as claimed: in a component with a data source, when the expansion
\* list changes, handleItemExpansion is
\* invoked exactly once for every item that was collapsed and is now
\* expanded, and for no other item: not for one that was expanded already,
\* not for one that was collapsed by the change.
C31_OncePerNewlyExpanded ==
  [][(dataSource # Undefined /\ ExpansionChange)
     => /\ NoRepeat(Handled(lastOp'))
        /\ Elements(Handled(lastOp'))
             = Elements(view'.expanded) \ Elements(view.expanded)]_vars

\* The same with the expandedItems prop given (controlled mode) only.
C31_Controlled ==
  [][(dataSource # Undefined /\ view.controlled /\ ExpansionChange)
     => /\ NoRepeat(Handled(lastOp'))
        /\ Elements(Handled(lastOp'))
             = Elements(view'.expanded) \ Elements(view.expanded)]_vars

\* The initial-load effect called loadItems() in this step.
RootLoadRuns == lastOp'.op = "loadItems" /\ lastOp'.id = Undefined

\* C32 as claimed: the root list is loaded once when the component is
\* mounted with a data source, once more whenever another object is passed
\* as dataSource, and not when the component is rendered again with the
\* same dataSource.
C32_LoadPerDataSource ==
  [][/\ (dataSource # Undefined /\ Mount) => RootLoadRuns
     /\ \A ds \in Sources : SetDataSource(ds) => RootLoadRuns
     /\ Rerender => (~RootLoadRuns /\ NoCall)]_vars

\* What holds instead: the root list is loaded by the first run of the
\* effect that finds a data source (at mount, or when the first one is
\* passed later), and by no run after it.
C32_LoadOnMountOnly ==
  [][/\ (dataSource # Undefined /\ Mount) => RootLoadRuns
     /\ (dataSource = Undefined /\ Mount) => (~RootLoadRuns /\ NoCall)
     /\ \A ds \in Sources :
          SetDataSource(ds) => IF view.didInitialLoad
                                 THEN ~RootLoadRuns /\ NoCall
                                 ELSE RootLoadRuns
     /\ SetDataSource(NoSource) => (~RootLoadRuns /\ NoCall)
     /\ Rerender => (~RootLoadRuns /\ NoCall)]_vars

\* ------------------------------------------------- snapshots as references
\* The tree utilities over a heap: an address is an index of the heap, 0 is
\* undefined; an item is an object whose children field is the address of
\* an array, an array is an object whose elems are the addresses of its
\* items.  A reader holds the address of the array it was given.

\* Mutant: the object is not copied, the fields are written to item itself.
NewObject_InPlace(h, a, obj) == [heap |-> [h EXCEPT ![a] = obj], addr |-> a]

\* { ...item, children: ... }: a new object with the fields obj; a is the
\* address of item.
NewObject(h, a, obj) == [heap |-> Append(h, obj), addr |-> Len(h) + 1]

\* items.map(...): a new array with the elements elems.
NewArray(h, elems) == [heap |-> Append(h, [elems |-> elems]), addr |-> Len(h) + 1]

\* The tree its laid out on heap h.
RECURSIVE StoreItems(_, _)
RECURSIVE StoreEach(_, _)
StoreEach(h, its) ==
  IF its = <<>> THEN [heap |-> h, out |-> <<>>]
  ELSE LET item == Head(its)
           kids == IF item.children = None
                     THEN [heap |-> h, addr |-> 0]
                     ELSE StoreItems(h, item.children[1])
           h1 == Append(kids.heap, [item EXCEPT !.children = kids.addr])
           rest == StoreEach(h1, Tail(its))
       IN [heap |-> rest.heap, out |-> <<Len(h1)>> \o rest.out]
StoreItems(h, its) ==
  LET e == StoreEach(h, its) IN NewArray(e.heap, e.out)

\* The tree a reader holding the array at addr sees on heap h.
RECURSIVE ReadItems(_, _)
ReadItem(h, a) ==
  LET o == h[a] IN
    IF "children" \in DOMAIN o
      THEN [o EXCEPT !.children = IF o.children = 0
                                    THEN None
                                    ELSE Some(ReadItems(h, o.children))]
      ELSE o
ReadItems(h, addr) ==
  [i \in 1..Len(h[addr].elems) |-> ReadItem(h, h[addr].elems[i])]

\* item.children && item.children.length > 0
NonEmptyAt(h, item) == item.children # 0 /\ Len(h[item.children].elems) > 0

\* updateItemsRecursively(items, parentId, children) on the heap: itemsAddr
\* and childrenAddr are the arrays passed, the result is the array returned.
RECURSIVE updateItemsRecursivelyAt(_, _, _, _)
RECURSIVE UpdateEach(_, _, _, _)
UpdateEach(h, elems, parentId, childrenAddr) ==
  IF elems = <<>> THEN [heap |-> h, out |-> <<>>]
  ELSE LET a == Head(elems)
           item == h[a]
           mapped ==
             IF item.id = parentId
               THEN NewObject(h, a, [item EXCEPT !.children = childrenAddr])
             ELSE IF NonEmptyAt(h, item)
               THEN LET r == updateItemsRecursivelyAt(h, item.children, parentId, childrenAddr)
                    IN NewObject(r.heap, a, [item EXCEPT !.children = r.addr])
             ELSE [heap |-> h, addr |-> a]
           rest == UpdateEach(mapped.heap, Tail(elems), parentId, childrenAddr)
       IN [heap |-> rest.heap, out |-> <<mapped.addr>> \o rest.out]
updateItemsRecursivelyAt(h, itemsAddr, parentId, childrenAddr) ==
  LET m == UpdateEach(h, h[itemsAddr].elems, parentId, childrenAddr)
  IN NewArray(m.heap, m.out)

\* enhanced.children = [child]: the children field of the object at addr is
\* overwritten with a new one-element array.
SetSyntheticChild(h, addr, child) ==
  LET arr == NewArray(Append(h, child), <<Len(h) + 1>>)
  IN [arr.heap EXCEPT ![addr].children = arr.addr]

\* enhanceItemsWithStates(items, { loadingItems, errorItems }, dataSource)
\* on the heap.
RECURSIVE enhanceItemsWithStatesAt(_, _, _, _, _)
EnhanceItem(h, a, loading, errors, ds) ==
  LET item == h[a]
      ce == IF NonEmptyAt(h, item)
              THEN enhanceItemsWithStatesAt(h, item.children, loading, errors, ds)
              ELSE [heap |-> h, addr |-> item.children]
      childrenWereChanged == ce.addr # item.children
      childrenCount == ChildrenCount(ds, item)
      isLoading == item.id \in loading
      error == MapGet(errors, item.id)
      needsPlaceholder ==
        childrenCount # 0 /\ (item.children = 0 \/ Len(h[item.children].elems) = 0)
      needsEnhancement ==
        isLoading \/ TruthyError(error) \/ needsPlaceholder \/ childrenWereChanged
      enhanced ==
        NewObject(ce.heap, a,
                  [id |-> item.id, label |-> item.label,
                   childrenCount |-> item.childrenCount,
                   children |-> ce.addr,
                   slotProps |-> [item |-> [isLoading |-> isLoading, error |-> error,
                                            hasChildren |-> childrenCount # 0,
                                            childrenCount |-> childrenCount]]])
  IN IF ds = Undefined
       THEN IF childrenWereChanged
              THEN NewObject(ce.heap, a, [item EXCEPT !.children = ce.addr])
              ELSE [heap |-> ce.heap, addr |-> a]
     ELSE IF ~needsEnhancement
       THEN [heap |-> ce.heap, addr |-> a]
     ELSE [heap |->
             IF isLoading
               THEN SetSyntheticChild(enhanced.heap, enhanced.addr, LoadingChild(item.id))
             ELSE IF TruthyError(error)
               THEN SetSyntheticChild(enhanced.heap, enhanced.addr, ErrorChild(item.id, error))
             ELSE IF needsPlaceholder
               THEN SetSyntheticChild(enhanced.heap, enhanced.addr, PlaceholderChild(item.id))
             ELSE enhanced.heap,
           addr |-> enhanced.addr]

RECURSIVE EnhanceEach(_, _, _, _, _)
EnhanceEach(h, elems, loading, errors, ds) ==
  IF elems = <<>> THEN [heap |-> h, out |-> <<>>]
  ELSE LET mapped == EnhanceItem(h, Head(elems), loading, errors, ds)
           rest == EnhanceEach(mapped.heap, Tail(elems), loading, errors, ds)
       IN [heap |-> rest.heap, out |-> <<mapped.addr>> \o rest.out]
enhanceItemsWithStatesAt(h, itemsAddr, loading, errors, ds) ==
  LET m == EnhanceEach(h, h[itemsAddr].elems, loading, errors, ds)
  IN NewArray(m.heap, m.out)

\* What a tree utility did while a reader held the snapshot it was given:
\* the tree the reader sees afterwards, the tree returned, and whether the
\* array returned is another one than the array given.
HeldOp(op, id, args, h, given, returned) ==
  [Op(op, id, FALSE, None) EXCEPT
     !.found = args,
     !.returned = Some([held |-> ReadItems(h, given),
                        result |-> ReadItems(h, returned),
                        newReference |-> returned # given])]

\* updateItemChildren(parentId, children): setItems(prevItems =>
\* updateItemsRecursively(prevItems, parentId, children)), a reader holding
\* prevItems.
ReplaceHeld(parentId, children) ==
  LET given == StoreItems(<<>>, items)
      delivered == StoreItems(given.heap, children)
      r == updateItemsRecursivelyAt(delivered.heap, given.addr, parentId, delivered.addr)
  IN /\ items' = ReadItems(r.heap, r.addr)
     /\ lastOp' = HeldOp("updateItemChildren", parentId, [children |-> children],
                         r.heap, given.addr, r.addr)
     /\ UNCHANGED <<loadingItems, errorItems, cache, fetchedTimes, now,
                    dataSource, inflight, calls, script, view>>

\* The loading flags and error entries the decoration is computed for.
LoadingSets == SUBSET {"a", "c"}
ErrorMaps == {EmptyMap, MapSet(EmptyMap, "a", "boom"), MapSet(EmptyMap, "c", "")}

\* The enhancedItems memo, a reader holding internalItems.
DecorateHeld(loading, errors) ==
  LET given == StoreItems(<<>>, items)
      r == enhanceItemsWithStatesAt(given.heap, given.addr, loading, errors, dataSource)
  IN /\ lastOp' = HeldOp("enhanceItemsWithStates", Undefined,
                         [loading |-> loading, errors |-> errors],
                         r.heap, given.addr, r.addr)
     /\ UNCHANGED <<items, loadingItems, errorItems, cache, fetchedTimes, now,
                    dataSource, inflight, calls, script, view>>

\* The ids and children lists updateItemChildren is applied with here.
HeldIds == {"a", "c", "zz"}
HeldLists == {<<>>, <<ItemC>>, <<ItemD>>}

NextHeld ==
  \/ \E id \in HeldIds : \E children \in HeldLists : ReplaceHeld(id, children)
  \/ \E loading \in LoadingSets : \E errors \in ErrorMaps : DecorateHeld(loading, errors)

SpecHeld == Init /\ [][NextHeld]_vars

\* C33: a snapshot is never changed in place: after updateItemChildren and
\* after the decoration, a reader that holds the snapshot the utility was
\* given sees the tree it saw before, at every depth; the utility returns
\* another array, which holds the tree the utility computes.
C33_SnapshotsNotMutated ==
  [][/\ Ran("updateItemChildren", lastOp'.id)
        => /\ lastOp'.returned[1].held = items
           /\ lastOp'.returned[1].newReference
           /\ lastOp'.returned[1].result = items'
           /\ items' = updateItemsRecursively(items, lastOp'.id, lastOp'.found.children)
     /\ Ran("enhanceItemsWithStates", Undefined)
        => /\ lastOp'.returned[1].held = items
           /\ lastOp'.returned[1].newReference
           /\ lastOp'.returned[1].result
                = enhanceItemsWithStates(items, lastOp'.found.loading,
                                         lastOp'.found.errors, dataSource)]_vars

\* C33 witness: the children of "c", a node below "a", were replaced; the
\* reader of the earlier snapshot still sees "c" without children, the new
\* snapshot has them.
C33_Witness ==
  /\ lastOp.op = "updateItemChildren" /\ lastOp.id = "c"
  /\ lastOp.returned[1].held = <<[ItemA EXCEPT !.children = Some(<<ItemC>>)], ItemB>>
  /\ items = <<[ItemA EXCEPT !.children =
                  Some(<<[ItemC EXCEPT !.children = Some(<<ItemD>>)]>>)], ItemB>>

====
